---- MODULE Spec2Model ----
(***************************************************************************)
(* RetroRomWeb: the library synchroniser (scripts/scanner.js, latest        *)
(* revision in src/unnamed/part_005) and the process-wide task runner       *)
(* (utils/queue.js, latest revision in src/unnamed/part_007).               *)
(*                                                                          *)
(* Node.js runs one callback at a time.  Every action below is one          *)
(* event-loop turn: the synchronous code of a request handler, of a timer   *)
(* callback or of an I/O completion, followed by the promise continuations  *)
(* (micro-tasks) it makes runnable.  Time is counted in units of TimeUnit   *)
(* milliseconds; a timer fires once its delay has elapsed, and timers fire  *)
(* in the order of their expiry.                                            *)
(***************************************************************************)
EXTENDS Integers, Sequences, FiniteSets, TLC

VARIABLES
    \* scanner.js globalStatus
    runningSystem, pendingQueue, isStopping, progress,
    \* queue.js TaskQueue singleton (fileQueue)
    queue, processing,
    \* activations of processSystemSync (one closure per batch) and of the
    \* per-file task closures that are between two awaits
    batches, inflight,
    \* activations of syncSingleGame
    refreshes,
    \* the activation of scraper.fetchGameInfo: its arguments, its position, the
    \* requests it has sent with their answers, and what it returned
    resolve,
    \* pending setTimeout callbacks
    timers,
    \* the games table, the media_library table, the files under mediaDir, the
    \* directory listing of romsDir and the scanner's cache of media listings
    games, media_library, mediaFiles, disk, dirCache,
    \* history: the reply of the last request, call counters, and what the
    \* claims need to remember about the past
    reply, nAccepted, nStops, stopCalled, sinceStop, condemned, discarded,
    \* history: the calls of downloadMedia made one by one, with what each did
    fetched,
    \* the activation of the handler of GET /api/play-merged/:id/:filename: what
    \* it finds in the catalog and on disk, its position and its response
    play

vars == <<runningSystem, pendingQueue, isStopping, progress, queue, processing,
          batches, inflight, refreshes, resolve, timers, games, media_library, mediaFiles, disk,
          dirCache, reply, nAccepted, nStops, stopCalled, sinceStop, condemned, discarded,
          fetched, play>>

(***************************************************************************)
(* Bounds of the model.                                                     *)
(***************************************************************************)
MaxBatches == 3
MaxAdds == 4
MaxStops == 1
MaxRefreshes == 2
MaxCalls == 2

(***************************************************************************)
(* Program constants.                                                       *)
(***************************************************************************)
DebounceMs == 1000
GraceMs == 500
GapMs == 1000

RECURSIVE GCD(_, _)
GCD(a, b) == IF b = 0 THEN a ELSE GCD(b, a % b)
TimeUnit == GCD(GCD(DebounceMs, GraceMs), GapMs)

Null == "null"
NullPath == <<>>
Placeholder == "placeholder"
NoDesc == ""
RealDesc == "real"

Systems == {"nes", "snes", "gone"}
Files == {"f1", "f2"}
Titles == {"T1"}
FileOrder == <<"f1", "f2">>

\* the extensions processSystemSync takes for ROMs, and path.extname(f).toLowerCase()
\* of the directory entries of the model
ROM_EXTS == {".zip", ".7z", ".iso", ".bin", ".cue", ".chd", ".cso", ".nes", ".sfc",
             ".gba", ".gb", ".gbc", ".md", ".gen", ".z64", ".n64", ".nds", ".3ds",
             ".cia", ".nsp", ".xci", ".wbfs", ".rvz"}
extname(f) == CASE f = "readme" -> ".txt"
                [] f = "saves" -> ""
                [] f = "Final.iso" -> ".iso"
                [] OTHER -> ".zip"

OptionKeys == {"syncInfo", "syncImages", "syncVideo", "syncMarquees", "syncBoxArt",
               "incremental", "overwrite"}
defaultOps == [syncInfo |-> TRUE, syncImages |-> TRUE, syncVideo |-> FALSE,
               syncMarquees |-> TRUE, syncBoxArt |-> FALSE,
               incremental |-> TRUE, overwrite |-> FALSE]

\* { ...defaultOps, ...options }: options is the set of <<key, value>> pairs of
\* the request body
MergeOps(options) ==
    [k \in OptionKeys |->
        IF \E p \in options : p[1] = k
        THEN (CHOOSE p \in options : p[1] = k)[2]
        ELSE defaultOps[k]]

\* asset categories: the folder under mediaDir/<system>/, the column of the games
\* table, the option that requests it and the scraperData field carrying its URL
Cats == {"covers", "screenshots", "videos", "marquees", "boxtextures"}
CatOrder == <<"covers", "screenshots", "videos", "marquees", "boxtextures">>
Column(c) == CASE c = "covers" -> "image_path"
               [] c = "screenshots" -> "screenshot_path"
               [] c = "videos" -> "video_path"
               [] c = "marquees" -> "marquee_path"
               [] c = "boxtextures" -> "box_texture_path"
CatOption(c) == CASE c = "covers" -> "syncImages"
                  [] c = "screenshots" -> "syncImages"
                  [] c = "videos" -> "syncVideo"
                  [] c = "marquees" -> "syncMarquees"
                  [] c = "boxtextures" -> "syncBoxArt"

(***************************************************************************)
(* Values.                                                                  *)
(***************************************************************************)
Put(f, k, v) == [x \in (DOMAIN f) \cup {k} |-> IF x = k THEN v ELSE f[x]]
Drop(f, K) == [x \in (DOMAIN f) \ K |-> f[x]]
EmptyFcn == [x \in {} |-> x]

RECURSIVE SeqOfSet(_, _)
\* the members of set in the order of the sequence order
SeqOfSet(order, set) ==
    IF order = <<>> THEN <<>>
    ELSE IF Head(order) \in set THEN <<Head(order)>> \o SeqOfSet(Tail(order), set)
    ELSE SeqOfSet(Tail(order), set)

Range(s) == {s[i] : i \in DOMAIN s}
Perms(set) == {s \in [1..Cardinality(set) -> set] : Range(s) = set}

NoTask == [system |-> Null, options |-> {}, ticket |-> 0]

BlankRow == [name |-> "", desc |-> NoDesc, image_path |-> NullPath,
             screenshot_path |-> NullPath, video_path |-> NullPath,
             marquee_path |-> NullPath, box_texture_path |-> NullPath]

\* the state of the program as one record, so that a handler is the composition
\* of the functions it calls
Cur == [runningSystem |-> runningSystem, pendingQueue |-> pendingQueue,
        isStopping |-> isStopping, progress |-> progress,
        queue |-> queue, processing |-> processing,
        batches |-> batches, inflight |-> inflight, refreshes |-> refreshes,
        timers |-> timers,
        games |-> games, media_library |-> media_library,
        mediaFiles |-> mediaFiles, disk |-> disk, dirCache |-> dirCache]

\* A closure of processSystemSync that no pending callback refers to is garbage:
\* its variables are forgotten.  A finished batch keeps what the history needs.
Referenced(S, b) ==
    \/ S.batches[b].pc \in {"dbread", "cleaning"}
    \/ \E i \in DOMAIN S.queue : S.queue[i].batch = b
    \/ \E t \in S.inflight : t.batch = b
Forget(S) ==
    [S EXCEPT !.batches =
        [b \in DOMAIN @ |->
            IF @[b].pc = "done"
            THEN [@[b] EXCEPT !.diskFiles = {}, !.dbFilenameMap = EmptyFcn,
                              !.taskList = <<>>, !.total = 0, !.completedCount = 0,
                              !.cleanArg = Null, !.counted = <<>>,
                              !.toAdd = {}, !.toDelete = {}, !.toUpdate = {}]
            ELSE IF ~Referenced(S, b)
            THEN [@[b] EXCEPT !.diskFiles = {}, !.dbFilenameMap = EmptyFcn,
                              !.taskList = <<>>, !.total = 0, !.completedCount = 0,
                              !.counted = <<>>,
                              !.toAdd = {}, !.toDelete = {}, !.toUpdate = {}]
            ELSE @[b]],
              !.refreshes =
        [r \in DOMAIN @ |->
            IF @[r].pc = "done"
            THEN [@[r] EXCEPT !.hasOld = FALSE, !.oldData = BlankRow, !.row = BlankRow]
            ELSE @[r]]]

Install(T) ==
    LET S == Forget(T) IN
    /\ runningSystem' = S.runningSystem
    /\ pendingQueue' = S.pendingQueue
    /\ isStopping' = S.isStopping
    /\ progress' = S.progress
    /\ queue' = S.queue
    /\ processing' = S.processing
    /\ batches' = S.batches
    /\ inflight' = S.inflight
    /\ refreshes' = S.refreshes
    /\ resolve' = resolve
    /\ fetched' = fetched
    /\ play' = play
    /\ timers' = S.timers
    /\ games' = S.games
    /\ media_library' = S.media_library
    /\ mediaFiles' = S.mediaFiles
    /\ disk' = S.disk
    /\ dirCache' = S.dirCache

\* setTimeout(callback, ms)
setTimeout(S, kind, ms, task) ==
    [S EXCEPT !.timers = Append(@, [kind |-> kind, left |-> ms, task |-> task])]

(***************************************************************************)
(* scanner.js: the scheduler.                                               *)
(***************************************************************************)
\* a variant of finishCurrentSystem that starts nothing
finishCurrentSystem_NoDispatch(S) ==
    [S EXCEPT !.runningSystem = Null, !.isStopping = FALSE]

finishCurrentSystem(S) ==
    LET S1 == [S EXCEPT !.runningSystem = Null] IN
    IF S1.pendingQueue # <<>> /\ ~S1.isStopping
    THEN setTimeout([S1 EXCEPT !.pendingQueue = Tail(@)], "debounce", DebounceMs,
                    Head(S1.pendingQueue))
    ELSE IF S1.isStopping THEN [S1 EXCEPT !.isStopping = FALSE] ELSE S1

\* checkFinish(completedCount, taskList.length) called by a task of batch b:
\* starts cleanOrphanedMedia(globalStatus.runningSystem), whose completion
\* calls finishCurrentSystem
checkFinish(S, b) ==
    IF S.batches[b].completedCount >= S.batches[b].total
    THEN [S EXCEPT !.batches[b].pc = "cleaning",
                   !.batches[b].cleanArg = S.runningSystem,
                   !.batches[b].sweeps = @ + 1]
    ELSE S

\* completedCount++ in the closure of batch b, for the task of file f
countTask(S, b, f) ==
    [S EXCEPT !.batches[b].completedCount = @ + 1,
              !.batches[b].counted = Append(@, f)]

(***************************************************************************)
(* queue.js: TaskQueue.                                                     *)
(***************************************************************************)
\* TaskQueue.clear
clear(S) == [S EXCEPT !.queue = <<>>, !.processing = FALSE]

\* the finally block of processNext, run when the awaited task has settled
processNextFinally(S) ==
    IF Len(S.queue) > 0
    THEN setTimeout(S, "gap", GapMs, NoTask)
    ELSE [S EXCEPT !.processing = FALSE]

\* getDirFilesMap: the names in mediaDir/<system>/<type>, cached per directory
Listing(S, dir) ==
    IF dir \in DOMAIN S.dirCache THEN S.dirCache[dir]
    ELSE {p[3] : p \in {q \in DOMAIN S.mediaFiles : q[1] = dir[1] /\ q[2] = dir[2]}}
getDirFilesMap(S, dir) ==
    IF dir \in DOMAIN S.dirCache THEN S
    ELSE [S EXCEPT !.dirCache = Put(@, dir, Listing(S, dir))]

ImageTypes == <<"covers", "miximages", "screenshots">>
\* the index in ImageTypes of the first folder listing romBasename, or 0
FoundImageType(S, system, romBasename) ==
    IF \E i \in 1..Len(ImageTypes) : romBasename \in Listing(S, <<system, ImageTypes[i]>>)
    THEN CHOOSE i \in 1..Len(ImageTypes) :
            /\ romBasename \in Listing(S, <<system, ImageTypes[i]>>)
            /\ \A j \in 1..(i - 1) : romBasename \notin Listing(S, <<system, ImageTypes[j]>>)
    ELSE 0
findLocalImage(S, system, romBasename) ==
    LET i == FoundImageType(S, system, romBasename) IN
    IF i = 0 THEN NullPath ELSE <<system, ImageTypes[i], romBasename>>
findLocalVideo(S, system, romBasename) ==
    IF romBasename \in Listing(S, <<system, "videos">>)
    THEN <<system, "videos", romBasename>> ELSE NullPath
\* the listings findLocalImage and findLocalVideo read, and so cache
RECURSIVE CacheDirs(_, _)
CacheDirs(S, dirs) ==
    IF dirs = <<>> THEN S ELSE CacheDirs(getDirFilesMap(S, Head(dirs)), Tail(dirs))
LocalLookupDirs(S, system, romBasename) ==
    LET i == FoundImageType(S, system, romBasename)
        n == IF i = 0 THEN Len(ImageTypes) ELSE i
    IN  [k \in 1..n |-> <<system, ImageTypes[k]>>] \o << <<system, "videos">> >>

(***************************************************************************)
(* scanner.js: the per-file pipeline.                                       *)
(***************************************************************************)
FileMissing(S, p) ==
    p = NullPath \/ p \notin DOMAIN S.mediaFiles \/ S.mediaFiles[p].empty

\* the network outcomes of one download: the file arrives, it arrives with no
\* bytes, the request fails (caught in downloadFile), the write stream fails
\* (downloadFile removes the partial file and rejects)
DlOutcomes == {"ok", "empty", "httpfail", "writefail"}

\* a variant of downloadMedia that never writes to media_library
downloadMedia_NoRegister(S, url, system, type, filename, overwrite, dl) ==
    LET target == <<system, type, filename>>
        forced == overwrite /\ target \in DOMAIN S.mediaFiles
        S1 == IF forced THEN [S EXCEPT !.mediaFiles = Drop(@, {target})] ELSE S
        log1 == IF forced THEN <<"unlink">> ELSE <<>>
        present == target \in DOMAIN S1.mediaFiles
        S2 == IF present /\ S1.mediaFiles[target].empty
              THEN [S1 EXCEPT !.mediaFiles = Drop(@, {target})] ELSE S1
        log2 == log1 \o (IF present /\ S1.mediaFiles[target].empty
                         THEN <<"unlink">> ELSE <<>>) \o <<"lookup">>
        cached == url \in DOMAIN S2.media_library
        sourcePath == IF cached THEN S2.media_library[url] ELSE NullPath
    IN  IF present /\ ~S1.mediaFiles[target].empty
        THEN [S |-> S1, threw |-> FALSE, log |-> log1 \o <<"skip">>]
        ELSE IF cached /\ sourcePath \in DOMAIN S2.mediaFiles
        THEN [S |-> [S2 EXCEPT !.mediaFiles = Put(@, target, S2.mediaFiles[sourcePath])],
              threw |-> FALSE, log |-> log2 \o <<"link">>]
        ELSE CASE dl = "ok" ->
                    [S |-> [S2 EXCEPT !.mediaFiles = Put(@, target, [src |-> url, empty |-> FALSE]),
                                      !.media_library = @],
                     threw |-> FALSE, log |-> log2 \o <<"download">>]
               [] dl = "empty" ->
                    [S |-> [S2 EXCEPT !.mediaFiles = Put(@, target, [src |-> url, empty |-> TRUE]),
                                      !.media_library = @],
                     threw |-> FALSE, log |-> log2 \o <<"download">>]
               [] dl = "httpfail" ->
                    [S |-> S2, threw |-> FALSE, log |-> log2 \o <<"download">>]
               [] dl = "writefail" ->
                    [S |-> S2, threw |-> TRUE, log |-> log2 \o <<"download">>]

\* a variant of downloadMedia that downloads whatever media_library holds
downloadMedia_NoLink(S, url, system, type, filename, overwrite, dl) ==
    LET target == <<system, type, filename>>
        forced == overwrite /\ target \in DOMAIN S.mediaFiles
        S1 == IF forced THEN [S EXCEPT !.mediaFiles = Drop(@, {target})] ELSE S
        log1 == IF forced THEN <<"unlink">> ELSE <<>>
        present == target \in DOMAIN S1.mediaFiles
        S2 == IF present /\ S1.mediaFiles[target].empty
              THEN [S1 EXCEPT !.mediaFiles = Drop(@, {target})] ELSE S1
        log2 == log1 \o (IF present /\ S1.mediaFiles[target].empty
                         THEN <<"unlink">> ELSE <<>>) \o <<"lookup">>
        cached == url \in DOMAIN S2.media_library
        sourcePath == IF cached THEN S2.media_library[url] ELSE NullPath
    IN  IF present /\ ~S1.mediaFiles[target].empty
        THEN [S |-> S1, threw |-> FALSE, log |-> log1 \o <<"skip">>]
        ELSE IF FALSE
        THEN [S |-> [S2 EXCEPT !.mediaFiles = Put(@, target, S2.mediaFiles[sourcePath])],
              threw |-> FALSE, log |-> log2 \o <<"link">>]
        ELSE CASE dl = "ok" ->
                    [S |-> [S2 EXCEPT !.mediaFiles = Put(@, target, [src |-> url, empty |-> FALSE]),
                                      !.media_library = Put(@, url, target)],
                     threw |-> FALSE, log |-> log2 \o <<"download", "register">>]
               [] dl = "empty" ->
                    [S |-> [S2 EXCEPT !.mediaFiles = Put(@, target, [src |-> url, empty |-> TRUE]),
                                      !.media_library = Put(@, url, target)],
                     threw |-> FALSE, log |-> log2 \o <<"download", "register">>]
               [] dl = "httpfail" ->
                    [S |-> S2, threw |-> FALSE, log |-> log2 \o <<"download">>]
               [] dl = "writefail" ->
                    [S |-> S2, threw |-> TRUE, log |-> log2 \o <<"download">>]

\* a variant of downloadMedia that also skips a zero-length target
downloadMedia_SkipsEmpty(S, url, system, type, filename, overwrite, dl) ==
    LET target == <<system, type, filename>>
        forced == overwrite /\ target \in DOMAIN S.mediaFiles
        S1 == IF forced THEN [S EXCEPT !.mediaFiles = Drop(@, {target})] ELSE S
        log1 == IF forced THEN <<"unlink">> ELSE <<>>
        present == target \in DOMAIN S1.mediaFiles
        S2 == IF present /\ S1.mediaFiles[target].empty
              THEN [S1 EXCEPT !.mediaFiles = Drop(@, {target})] ELSE S1
        log2 == log1 \o (IF present /\ S1.mediaFiles[target].empty
                         THEN <<"unlink">> ELSE <<>>) \o <<"lookup">>
        cached == url \in DOMAIN S2.media_library
        sourcePath == IF cached THEN S2.media_library[url] ELSE NullPath
    IN  IF present
        THEN [S |-> S1, threw |-> FALSE, log |-> log1 \o <<"skip">>]
        ELSE IF cached /\ sourcePath \in DOMAIN S2.mediaFiles
        THEN [S |-> [S2 EXCEPT !.mediaFiles = Put(@, target, S2.mediaFiles[sourcePath])],
              threw |-> FALSE, log |-> log2 \o <<"link">>]
        ELSE CASE dl = "ok" ->
                    [S |-> [S2 EXCEPT !.mediaFiles = Put(@, target, [src |-> url, empty |-> FALSE]),
                                      !.media_library = Put(@, url, target)],
                     threw |-> FALSE, log |-> log2 \o <<"download", "register">>]
               [] dl = "empty" ->
                    [S |-> [S2 EXCEPT !.mediaFiles = Put(@, target, [src |-> url, empty |-> TRUE]),
                                      !.media_library = Put(@, url, target)],
                     threw |-> FALSE, log |-> log2 \o <<"download", "register">>]
               [] dl = "httpfail" ->
                    [S |-> S2, threw |-> FALSE, log |-> log2 \o <<"download">>]
               [] dl = "writefail" ->
                    [S |-> S2, threw |-> TRUE, log |-> log2 \o <<"download">>]

\* a variant of downloadMedia that ignores overwrite
downloadMedia_NoOverwrite(S, url, system, type, filename, overwrite, dl) ==
    LET target == <<system, type, filename>>
        forced == FALSE
        S1 == IF forced THEN [S EXCEPT !.mediaFiles = Drop(@, {target})] ELSE S
        log1 == IF forced THEN <<"unlink">> ELSE <<>>
        present == target \in DOMAIN S1.mediaFiles
        S2 == IF present /\ S1.mediaFiles[target].empty
              THEN [S1 EXCEPT !.mediaFiles = Drop(@, {target})] ELSE S1
        log2 == log1 \o (IF present /\ S1.mediaFiles[target].empty
                         THEN <<"unlink">> ELSE <<>>) \o <<"lookup">>
        cached == url \in DOMAIN S2.media_library
        sourcePath == IF cached THEN S2.media_library[url] ELSE NullPath
    IN  IF present /\ ~S1.mediaFiles[target].empty
        THEN [S |-> S1, threw |-> FALSE, log |-> log1 \o <<"skip">>]
        ELSE IF cached /\ sourcePath \in DOMAIN S2.mediaFiles
        THEN [S |-> [S2 EXCEPT !.mediaFiles = Put(@, target, S2.mediaFiles[sourcePath])],
              threw |-> FALSE, log |-> log2 \o <<"link">>]
        ELSE CASE dl = "ok" ->
                    [S |-> [S2 EXCEPT !.mediaFiles = Put(@, target, [src |-> url, empty |-> FALSE]),
                                      !.media_library = Put(@, url, target)],
                     threw |-> FALSE, log |-> log2 \o <<"download", "register">>]
               [] dl = "empty" ->
                    [S |-> [S2 EXCEPT !.mediaFiles = Put(@, target, [src |-> url, empty |-> TRUE]),
                                      !.media_library = Put(@, url, target)],
                     threw |-> FALSE, log |-> log2 \o <<"download", "register">>]
               [] dl = "httpfail" ->
                    [S |-> S2, threw |-> FALSE, log |-> log2 \o <<"download">>]
               [] dl = "writefail" ->
                    [S |-> S2, threw |-> TRUE, log |-> log2 \o <<"download">>]

\* downloadMedia(url, system, type, filename, overwrite) under network outcome dl;
\* the result is the new state, whether the call threw, and what the call did
\* to the file system, the media_library table and the network, in order
downloadMedia(S, url, system, type, filename, overwrite, dl) ==
    LET target == <<system, type, filename>>
        forced == overwrite /\ target \in DOMAIN S.mediaFiles
        S1 == IF forced THEN [S EXCEPT !.mediaFiles = Drop(@, {target})] ELSE S
        log1 == IF forced THEN <<"unlink">> ELSE <<>>
        present == target \in DOMAIN S1.mediaFiles
        S2 == IF present /\ S1.mediaFiles[target].empty
              THEN [S1 EXCEPT !.mediaFiles = Drop(@, {target})] ELSE S1
        log2 == log1 \o (IF present /\ S1.mediaFiles[target].empty
                         THEN <<"unlink">> ELSE <<>>) \o <<"lookup">>
        cached == url \in DOMAIN S2.media_library
        sourcePath == IF cached THEN S2.media_library[url] ELSE NullPath
    IN  IF present /\ ~S1.mediaFiles[target].empty
        THEN [S |-> S1, threw |-> FALSE, log |-> log1 \o <<"skip">>]
        ELSE IF cached /\ sourcePath \in DOMAIN S2.mediaFiles
        THEN [S |-> [S2 EXCEPT !.mediaFiles = Put(@, target, S2.mediaFiles[sourcePath])],
              threw |-> FALSE, log |-> log2 \o <<"link">>]
        ELSE CASE dl = "ok" ->
                    [S |-> [S2 EXCEPT !.mediaFiles = Put(@, target, [src |-> url, empty |-> FALSE]),
                                      !.media_library = Put(@, url, target)],
                     threw |-> FALSE, log |-> log2 \o <<"download", "register">>]
               [] dl = "empty" ->
                    [S |-> [S2 EXCEPT !.mediaFiles = Put(@, target, [src |-> url, empty |-> TRUE]),
                                      !.media_library = Put(@, url, target)],
                     threw |-> FALSE, log |-> log2 \o <<"download", "register">>]
               [] dl = "httpfail" ->
                    [S |-> S2, threw |-> FALSE, log |-> log2 \o <<"download">>]
               [] dl = "writefail" ->
                    [S |-> S2, threw |-> TRUE, log |-> log2 \o <<"download">>]

\* the downloads of processNewGame for the categories CatOrder[i..], in order;
\* a download that throws is caught by processNewGame and skips the rest.
\* acc is [S, row, log], log what each call of downloadMedia did; oc is the
\* outcome of the lookup and of the downloads
RECURSIVE handleDownloads(_, _, _, _, _)
handleDownloads(acc, system, ops, oc, i) ==
    IF i > Len(CatOrder) THEN acc
    ELSE LET c == CatOrder[i] IN
         IF ops[CatOption(c)] /\ c \in oc.urls
         THEN LET r == downloadMedia(acc.S, <<oc.title, c>>, system, c, oc.title,
                                     ops.overwrite = TRUE, oc.dl[c])
                  log == Append(acc.log, [type |-> c, did |-> r.log])
              IN  IF r.threw THEN [S |-> r.S, row |-> acc.row, log |-> log]
                  ELSE handleDownloads(
                          [S |-> r.S,
                           row |-> [acc.row EXCEPT ![Column(c)] = <<system, c, oc.title>>],
                           log |-> log],
                          system, ops, oc, i + 1)
         ELSE handleDownloads(acc, system, ops, oc, i + 1)

shouldScrape(ops, hasOld) ==
    ops.syncInfo \/ ops.syncImages \/ ops.syncVideo \/ ops.syncMarquees \/ ops.syncBoxArt
        \/ ~hasOld

\* a variant of processNewGameRow that takes nothing from the row read before
processNewGameRow_NoOldData(S, system, filename, hasOld, oldData) ==
    [name |-> filename, desc |-> Placeholder,
     image_path |-> findLocalImage(S, system, filename),
     video_path |-> findLocalVideo(S, system, filename),
     marquee_path |-> NullPath, box_texture_path |-> NullPath,
     screenshot_path |-> NullPath]

\* processNewGame up to its first await: the row as known before the lookup
processNewGameRow(S, system, filename, hasOld, oldData) ==
    LET img == findLocalImage(S, system, filename)
        vid == findLocalVideo(S, system, filename)
        keep(old, new) == IF hasOld /\ old # NullPath THEN old ELSE new
    IN  [name |-> IF hasOld /\ oldData.name # "" THEN oldData.name ELSE filename,
         desc |-> IF hasOld /\ oldData.desc # NoDesc THEN oldData.desc ELSE Placeholder,
         image_path |-> keep(oldData.image_path, img),
         video_path |-> keep(oldData.video_path, vid),
         marquee_path |-> keep(oldData.marquee_path, NullPath),
         box_texture_path |-> keep(oldData.box_texture_path, NullPath),
         screenshot_path |-> keep(oldData.screenshot_path, NullPath)]

\* processNewGame from the answer of scraper.fetchGameInfo to the INSERT
processNewGameScraped(S, system, ops, row, oc) ==
    IF oc.kind = "hit"
    THEN LET row1 == IF ops.syncInfo
                     THEN [row EXCEPT !.name = oc.title,
                                      !.desc = IF oc.hasDesc THEN RealDesc ELSE Placeholder]
                     ELSE row
         IN  handleDownloads([S |-> S, row |-> row1, log |-> <<>>], system, ops, oc, 1)
    ELSE [S |-> S, row |-> row, log |-> <<>>]

\* cleanOrphanedMedia(system): with system = null, path.join throws before any
\* file is touched
SweptFolders == {"covers", "videos", "marquees", "boxtextures", "screenshots"}
\* file.startsWith('.') for the file names of the model
startsWithDot(file) == file \in {".DS_Store"}
\* a variant of validPaths that leaves out the cover column
validPaths_WithoutCovers(S, system) ==
    LET rows == {S.games[k] : k \in {q \in DOMAIN S.games : q[1] = system}} IN
    UNION {{r.video_path, r.marquee_path, r.box_texture_path, r.screenshot_path} : r \in rows}
        \ {NullPath}
validPaths(S, system) ==
    LET rows == {S.games[k] : k \in {q \in DOMAIN S.games : q[1] = system}} IN
    UNION {{r.image_path, r.video_path, r.marquee_path, r.box_texture_path,
            r.screenshot_path} : r \in rows} \ {NullPath}
\* a variant of cleanOrphanedMedia that removes every file of the swept folders
cleanOrphanedMedia_SweepAll(S, system) ==
    IF system = Null THEN S
    ELSE [S EXCEPT !.mediaFiles =
            Drop(@, {p \in DOMAIN S.mediaFiles : p[1] = system /\ p[2] \in SweptFolders})]

\* a variant of cleanOrphanedMedia that does not look into the covers folder
cleanOrphanedMedia_SkipsCovers(S, system) ==
    IF system = Null THEN S
    ELSE LET orphans == {p \in DOMAIN S.mediaFiles :
                            /\ p[1] = system
                            /\ p[2] \in SweptFolders \ {"covers"}
                            /\ ~startsWithDot(p[3])
                            /\ p \notin validPaths(S, system)}
         IN  [S EXCEPT !.mediaFiles = Drop(@, orphans)]

cleanOrphanedMedia(S, system) ==
    IF system = Null THEN S
    ELSE LET orphans == {p \in DOMAIN S.mediaFiles :
                            /\ p[1] = system
                            /\ p[2] \in SweptFolders
                            /\ ~startsWithDot(p[3])
                            /\ p \notin validPaths(S, system)}
         IN  [S EXCEPT !.mediaFiles = Drop(@, orphans)]

(***************************************************************************)
(* The per-file task closure (processSystemSync, taskList.forEach) and      *)
(* TaskQueue.processNext.                                                   *)
(***************************************************************************)
OldData(S, b, f) ==
    IF f \in DOMAIN S.batches[b].dbFilenameMap THEN S.batches[b].dbFilenameMap[f]
    ELSE BlankRow
HasOld(S, b, f) == f \in DOMAIN S.batches[b].dbFilenameMap

\* processNewGame is entered: local media are looked up, then the lookup is
\* awaited, or the INSERT when nothing is to be scraped
enterProcessNewGame(S, b, f) ==
    LET sys == S.batches[b].system
        S1 == CacheDirs(S, LocalLookupDirs(S, sys, f))
        row == processNewGameRow(S, sys, f, HasOld(S, b, f), OldData(S, b, f))
        next == IF shouldScrape(S.batches[b].syncOps, HasOld(S, b, f))
                THEN "scrape" ELSE "insert"
    IN  [S1 EXCEPT !.inflight = @ \cup {[batch |-> b, filename |-> f, pc |-> next,
                                         row |-> row, scraperData |-> "unset"]}]

\* the task closure up to its first await
startTask(S, b, f) ==
    IF S.isStopping
    THEN processNextFinally(checkFinish(countTask(S, b, f), b))
    ELSE IF HasOld(S, b, f)
    THEN [S EXCEPT !.inflight = @ \cup {[batch |-> b, filename |-> f, pc |-> "delete",
                                         row |-> BlankRow, scraperData |-> "unset"]}]
    ELSE enterProcessNewGame(S, b, f)

\* TaskQueue.processNext
processNext(S) ==
    IF S.processing \/ Len(S.queue) = 0 THEN S
    ELSE LET task == Head(S.queue) IN
         startTask([S EXCEPT !.processing = TRUE, !.queue = Tail(@)],
                   task.batch, task.filename)

\* TaskQueue.add for each task of the list: every push is followed by
\* processNext, which starts a task at the first push at most
RECURSIVE addAll(_, _)
addAll(S, tasks) ==
    IF tasks = <<>> THEN S
    ELSE addAll([S EXCEPT !.queue = Append(@, Head(tasks))], Tail(tasks))

(***************************************************************************)
(* scanner.js: processSystemSync, addToSyncQueue, stopSync.                 *)
(***************************************************************************)
\* processSystemSync up to its first await (the query of the games table); an
\* unreadable directory ends the batch at once
processSystemSyncBegin(S, system, options, ticket) ==
    LET b == Len(S.batches) + 1
        rec == [system |-> system, syncOps |-> MergeOps(options), pc |-> "dbread",
                diskFiles |-> {}, dbFilenameMap |-> EmptyFcn, taskList |-> <<>>,
                total |-> 0, completedCount |-> 0, cleanArg |-> Null,
                sweeps |-> 0, counted |-> <<>>, ticket |-> ticket, stopped |-> FALSE,
                lacking |-> FALSE, toAdd |-> {}, toDelete |-> {}, toUpdate |-> {}]
        S1 == [S EXCEPT !.runningSystem = system,
                        !.isStopping = FALSE,
                        !.progress = [current |-> 0, total |-> 0],
                        !.dirCache = EmptyFcn,
                        !.batches = Append(@, rec)]
    IN  IF system \notin DOMAIN S.disk
        THEN finishCurrentSystem([S1 EXCEPT !.batches[b].pc = "done"])
        ELSE [S1 EXCEPT !.batches[b].diskFiles =
                            {f \in S.disk[system] : extname(f) \in ROM_EXTS}]

\* the rows of the games table of one system, by filename
dbGames(S, system) ==
    [f \in {k[2] : k \in {q \in DOMAIN S.games : q[1] = system}} |-> S.games[<<system, f>>]]

toAdd(diskFiles, rows) == diskFiles \ DOMAIN rows
toDelete(diskFiles, rows) == (DOMAIN rows) \ diskFiles

\* a variant of needsUpdate that does not look at the marquee
needsUpdate_NoMarquee(S, ops, g) ==
    IF ops.incremental = FALSE THEN TRUE
    ELSE \/ ops.syncInfo /\ (g.desc = NoDesc \/ g.desc = Placeholder)
         \/ ops.syncImages /\ FileMissing(S, g.image_path)
         \/ ops.syncVideo /\ FileMissing(S, g.video_path)
         \/ ops.syncBoxArt /\ FileMissing(S, g.box_texture_path)

\* the filter of toUpdate for one row g
needsUpdate(S, ops, g) ==
    IF ops.incremental = FALSE THEN TRUE
    ELSE LET missingInfo == ops.syncInfo /\ (g.desc = NoDesc \/ g.desc = Placeholder)
             missingImg == ops.syncImages /\ FileMissing(S, g.image_path)
             missingVid == ops.syncVideo /\ FileMissing(S, g.video_path)
             missingMarquee == ops.syncMarquees /\ FileMissing(S, g.marquee_path)
             missingBoxArt == ops.syncBoxArt /\ FileMissing(S, g.box_texture_path)
         IN  missingInfo \/ missingImg \/ missingVid \/ missingMarquee \/ missingBoxArt

\* a variant of toUpdate without the test of globalStatus.isStopping
toUpdate_IgnoringStop(S, ops, diskFiles, rows) ==
    {f \in DOMAIN rows : f \in diskFiles /\ needsUpdate(S, ops, rows[f])}

toUpdate(S, ops, diskFiles, rows) ==
    {f \in DOMAIN rows : f \in diskFiles /\ ~S.isStopping /\ needsUpdate(S, ops, rows[f])}

\* processSystemSync from the answer of the games query on: the diff, the
\* deletion of the vanished rows and the work list.  updOrder is the order in
\* which the query returned the rows to update
processSystemSyncDiff(S, b, updOrder) ==
    LET B == S.batches[b]
        rows == dbGames(S, B.system)
        del == toDelete(B.diskFiles, rows)
        taskList == SeqOfSet(FileOrder, toAdd(B.diskFiles, rows)) \o updOrder
        S1 == [S EXCEPT !.games = Drop(@, {<<B.system, f>> : f \in del}),
                        !.batches[b].dbFilenameMap = rows,
                        !.batches[b].toAdd = toAdd(B.diskFiles, rows),
                        !.batches[b].toDelete = del,
                        !.batches[b].toUpdate = Range(updOrder),
                        !.batches[b].taskList = taskList,
                        !.batches[b].total = Len(taskList)]
    IN  IF Len(taskList) = 0
        THEN [S1 EXCEPT !.batches[b].pc = "cleaning",
                        !.batches[b].cleanArg = B.system,
                        !.batches[b].sweeps = @ + 1]
        ELSE processNext(addAll(
                [S1 EXCEPT !.progress.total = Len(taskList), !.batches[b].pc = "tasks"],
                [i \in 1..Len(taskList) |-> [batch |-> b, filename |-> taskList[i]]]))

\* a variant of addToSyncQueueCheck that does not look at the pending queue
addToSyncQueueCheck_NoQueueLookup(S, system) ==
    IF S.runningSystem = system THEN "running" ELSE "accept"

\* the part of addToSyncQueue that decides: "running", "queued" or "accept"
addToSyncQueueCheck(S, system) ==
    IF S.runningSystem = system THEN "running"
    ELSE IF \E i \in 1..Len(S.pendingQueue) : S.pendingQueue[i].system = system THEN "queued"
    ELSE "accept"

addToSyncQueue(S, system, options, ticket) ==
    IF addToSyncQueueCheck(S, system) # "accept" THEN S
    ELSE IF S.runningSystem = Null
    THEN processSystemSyncBegin(S, system, options, ticket)
    ELSE [S EXCEPT !.pendingQueue =
            Append(@, [system |-> system, options |-> options, ticket |-> ticket])]

\* a variant of stopSync that sets no grace timer
stopSync_NoGraceTimer(S) ==
    IF S.runningSystem # Null \/ Len(S.pendingQueue) > 0
    THEN clear([S EXCEPT !.isStopping = TRUE, !.pendingQueue = <<>>])
    ELSE S

stopSyncApplies(S) == S.runningSystem # Null \/ Len(S.pendingQueue) > 0

\* a variant of stopSync that abandons the tasks in flight
stopSync_Interrupting(S) ==
    IF stopSyncApplies(S)
    THEN setTimeout(clear([S EXCEPT !.isStopping = TRUE, !.pendingQueue = <<>>,
                                    !.inflight = {}]),
                    "grace", GraceMs, NoTask)
    ELSE S

stopSync(S) ==
    IF stopSyncApplies(S)
    THEN setTimeout(clear([S EXCEPT !.isStopping = TRUE, !.pendingQueue = <<>>]),
                    "grace", GraceMs, NoTask)
    ELSE S

\* the callback of the timer set by stopSync
graceExpired(S) == [S EXCEPT !.runningSystem = Null, !.isStopping = FALSE]

\* the callback of the timer set by processNext
gapExpired(S) == processNext([S EXCEPT !.processing = FALSE])

\* the callback of the timer set by finishCurrentSystem
debounceExpired(S, task) == processSystemSyncBegin(S, task.system, task.options, task.ticket)

(***************************************************************************)
(* Outcomes of the lookup service and of the downloads, as the per-file     *)
(* task sees them.  parseGameData returns no boxTextureUrl, so a hit never  *)
(* carries a URL for "boxtextures".                                         *)
(***************************************************************************)
ServedCats == Cats \ {"boxtextures"}
AllOk == [c \in Cats |-> "ok"]
Miss == [kind |-> "miss", title |-> "", hasDesc |-> FALSE, urls |-> {}, dl |-> AllOk]
Hit(title, hasDesc, urls, dl) ==
    [kind |-> "hit", title |-> title, hasDesc |-> hasDesc, urls |-> urls, dl |-> dl]
FullHit(title) == Hit(title, TRUE, ServedCats, AllOk)

NoReply == [op |-> "none", system |-> Null, success |-> FALSE]

\* a step of the program that no request causes
Internal(S) ==
    /\ Install(S)
    /\ reply' = NoReply
    /\ UNCHANGED <<nAccepted, nStops, stopCalled, sinceStop, condemned, discarded>>

\* INSERT INTO games: path is UNIQUE, so the statement fails when the catalog has
\* a row for the file; the callback is resolve either way
insertGame(S, system, filename, row) ==
    IF <<system, filename>> \in DOMAIN S.games THEN S
    ELSE [S EXCEPT !.games = Put(@, <<system, filename>>, row)]

(***************************************************************************)
(* scanner.js: syncSingleGame.                                              *)
(***************************************************************************)
\* the request body carries no options
Undefined == {<<"undefined", TRUE>>}
\* a variant of SingleOps that takes the options as the request gives them
SingleOps_AsGiven(options) ==
    IF options = Undefined THEN defaultOps ELSE MergeOps(options)

\* syncOps = options || defaultOps, then incremental = false, overwrite = true;
\* a key the request leaves out is undefined, which every test takes for false
SingleOps(options) ==
    [k \in OptionKeys |->
        IF k = "incremental" THEN FALSE
        ELSE IF k = "overwrite" THEN TRUE
        ELSE IF options = Undefined THEN k \in {"syncInfo", "syncImages", "syncMarquees"}
        ELSE IF \E p \in options : p[1] = k THEN (CHOOSE p \in options : p[1] = k)[2]
        ELSE FALSE]

\* syncSingleGame up to its first await (db.get); the caller has checked that no
\* batch is running
syncSingleGameBegin(S, system, filename, options) ==
    [S EXCEPT !.refreshes = Append(@,
        [system |-> system, filename |-> filename, syncOps |-> SingleOps(options),
         pc |-> "get", hasOld |-> FALSE, oldData |-> BlankRow, row |-> BlankRow])]

\* db.get has answered: the DELETE is issued
syncSingleGameGot(S, r) ==
    LET key == <<S.refreshes[r].system, S.refreshes[r].filename>> IN
    [S EXCEPT !.refreshes[r].pc = "delete",
              !.refreshes[r].hasOld = key \in DOMAIN S.games,
              !.refreshes[r].oldData = IF key \in DOMAIN S.games THEN S.games[key]
                                       ELSE BlankRow]

\* the DELETE has completed: processNewGame is entered
syncSingleGameDeleted(S, r) ==
    LET R == S.refreshes[r]
        S1 == [S EXCEPT !.games = Drop(@, {<<R.system, R.filename>>})]
        S2 == CacheDirs(S1, LocalLookupDirs(S1, R.system, R.filename))
    IN  [S2 EXCEPT !.refreshes[r].row =
                        processNewGameRow(S1, R.system, R.filename, R.hasOld, R.oldData),
                   !.refreshes[r].pc =
                        IF shouldScrape(R.syncOps, R.hasOld) THEN "scrape" ELSE "insert"]

\* scraper.fetchGameInfo has answered with oc: downloads, then the INSERT is issued
syncSingleGameScraped(S, r, oc) ==
    LET R == S.refreshes[r]
        res == processNewGameScraped(S, R.system, R.syncOps, R.row, oc)
    IN  [res.S EXCEPT !.refreshes[r].row = res.row, !.refreshes[r].pc = "insert"]

\* the INSERT has completed: cleanOrphanedMedia is started
syncSingleGameInserted(S, r) ==
    LET R == S.refreshes[r] IN
    [insertGame(S, R.system, R.filename, R.row) EXCEPT !.refreshes[r].pc = "clean"]

\* cleanOrphanedMedia has completed: syncSingleGame returns true
syncSingleGameCleaned(S, r) ==
    [cleanOrphanedMedia(S, S.refreshes[r].system) EXCEPT !.refreshes[r].pc = "done"]

RemoveAt(s, i) == [k \in 1..(Len(s) - 1) |-> IF k < i THEN s[k] ELSE s[k + 1]]

(***************************************************************************)
(* Requests (app.js: POST /api/scan/:system, POST /api/stop-scan).          *)
(***************************************************************************)
\* POST /api/scan/:system while fewer than bound requests have been accepted
AcceptAddToSyncQueue(bound, system, options) ==
    /\ nAccepted < bound
    /\ LET ok == addToSyncQueueCheck(Cur, system) = "accept" IN
        /\ Install(addToSyncQueue(Cur, system, options, nAccepted + 1))
        /\ reply' = [op |-> "addToSyncQueue", system |-> system, success |-> ok]
        /\ nAccepted' = IF ok THEN nAccepted + 1 ELSE nAccepted
        /\ stopCalled' = IF ok THEN FALSE ELSE stopCalled
        /\ sinceStop' = IF ok THEN FALSE ELSE sinceStop
        /\ UNCHANGED <<nStops, condemned, discarded>>

CallAddToSyncQueue(system, options) == AcceptAddToSyncQueue(MaxBatches, system, options)

CallStopSync ==
    /\ nStops < MaxStops
    /\ LET eff == stopSyncApplies(Cur)
           S1 == stopSync(Cur)
           S2 == IF eff
                 THEN [S1 EXCEPT !.batches =
                        [b \in DOMAIN @ |->
                            IF @[b].pc # "done" THEN [@[b] EXCEPT !.stopped = TRUE] ELSE @[b]]]
                 ELSE S1
       IN  /\ Install(S2)
           /\ sinceStop' = IF eff THEN TRUE ELSE sinceStop
           /\ discarded' = IF eff
                           THEN discarded \cup {pendingQueue[i].ticket : i \in DOMAIN pendingQueue}
                           ELSE discarded
    /\ reply' = [op |-> "stopSync", system |-> Null, success |-> TRUE]
    /\ nStops' = nStops + 1
    /\ stopCalled' = TRUE
    /\ condemned' = condemned \cup Range(queue)
    /\ UNCHANGED nAccepted

(***************************************************************************)
(* Completions of awaited I/O.                                              *)
(***************************************************************************)
\* the games query of processSystemSync answers
DbAllDone(b) ==
    /\ b \in DOMAIN batches
    /\ batches[b].pc = "dbread"
    /\ \E updOrder \in Perms(toUpdate(Cur, batches[b].syncOps, batches[b].diskFiles,
                                      dbGames(Cur, batches[b].system))) :
            Internal(processSystemSyncDiff(Cur, b, updOrder))

\* cleanOrphanedMedia completes, then finishCurrentSystem
CleanDone(b) ==
    /\ b \in DOMAIN batches
    /\ batches[b].pc = "cleaning"
    /\ Internal(finishCurrentSystem(
            [cleanOrphanedMedia(Cur, batches[b].cleanArg) EXCEPT !.batches[b].pc = "done"]))

\* the DELETE of the old row completes, processNewGame is entered
TaskDeleteDone(t) ==
    /\ t \in inflight
    /\ t.pc = "delete"
    /\ Internal(enterProcessNewGame(
            [Cur EXCEPT !.inflight = @ \ {t},
                        !.games = Drop(@, {<<batches[t.batch].system, t.filename>>})],
            t.batch, t.filename))

\* scraper.fetchGameInfo answers with oc; the downloads follow, then the INSERT
\* is issued
TaskScrapeDone(t, oc) ==
    /\ t \in inflight
    /\ t.pc = "scrape"
    /\ LET r == processNewGameScraped(Cur, batches[t.batch].system,
                                      batches[t.batch].syncOps, t.row, oc)
       IN  Internal([r.S EXCEPT
                !.inflight = (@ \ {t}) \cup {[t EXCEPT !.pc = "insert", !.row = r.row,
                                                           !.scraperData = oc.kind]},
                \* history: the row is written without something the options ask for
                !.batches[t.batch].lacking =
                    @ \/ needsUpdate(r.S, batches[t.batch].syncOps, r.row)])

\* a variant of endTask whose catch branch does not count the task
endTask_ThrownNotCounted(S, t, ok) ==
    LET S0 == [S EXCEPT !.inflight = @ \ {t}]
        S1 == countTask(S0, t.batch, t.filename)
        S2 == [S1 EXCEPT !.progress.current = S1.batches[t.batch].completedCount]
    IN  IF ok THEN processNextFinally(checkFinish(S2, t.batch))
        ELSE processNextFinally(S0)

\* the end of a task: completedCount++, checkFinish, then the finally block of
\* the processNext that started it
endTask(S, t, ok) ==
    LET S1 == countTask([S EXCEPT !.inflight = @ \ {t}], t.batch, t.filename)
        S2 == IF ok THEN [S1 EXCEPT !.progress.current = S1.batches[t.batch].completedCount]
              ELSE S1
    IN  processNextFinally(checkFinish(S2, t.batch))

\* processNewGame rejects (the catch branch of the task)
TaskThrows(t) ==
    /\ t \in inflight
    /\ t.pc = "scrape"
    /\ Internal(endTask(Cur, t, FALSE))

\* the INSERT completes (a row with the same path makes it fail: path is UNIQUE)
TaskInsertDone(t) ==
    /\ t \in inflight
    /\ t.pc = "insert"
    /\ Internal(endTask(insertGame(Cur, batches[t.batch].system, t.filename, t.row),
                        t, TRUE))

\* POST /api/scan-single: syncSingleGame throws while a batch is running
CallSyncSingleGame(system, filename, options) ==
    /\ Len(refreshes) < MaxRefreshes
    /\ Install(IF runningSystem # Null THEN Cur
               ELSE syncSingleGameBegin(Cur, system, filename, options))
    /\ reply' = [op |-> "syncSingleGame", system |-> system,
                 success |-> (runningSystem = Null)]
    /\ UNCHANGED <<nAccepted, nStops, stopCalled, sinceStop, condemned, discarded>>

RefreshGetDone(r) ==
    /\ r \in DOMAIN refreshes
    /\ refreshes[r].pc = "get"
    /\ Internal(syncSingleGameGot(Cur, r))

RefreshDeleteDone(r) ==
    /\ r \in DOMAIN refreshes
    /\ refreshes[r].pc = "delete"
    /\ Internal(syncSingleGameDeleted(Cur, r))

RefreshScrapeDone(r, oc) ==
    /\ r \in DOMAIN refreshes
    /\ refreshes[r].pc = "scrape"
    /\ Internal(syncSingleGameScraped(Cur, r, oc))

RefreshInsertDone(r) ==
    /\ r \in DOMAIN refreshes
    /\ refreshes[r].pc = "insert"
    /\ Internal(syncSingleGameInserted(Cur, r))

RefreshCleanDone(r) ==
    /\ r \in DOMAIN refreshes
    /\ refreshes[r].pc = "clean"
    /\ Internal(syncSingleGameCleaned(Cur, r))

(***************************************************************************)
(* Timers.                                                                  *)
(***************************************************************************)
Delay(kind) == CASE kind = "debounce" -> DebounceMs
                 [] kind = "gap" -> GapMs
                 [] kind = "grace" -> GraceMs

\* timer i is due, and no timer of the same delay set before it is still pending
Due(i) ==
    /\ i \in DOMAIN timers
    /\ timers[i].left = 0
    /\ \A j \in 1..(i - 1) : Delay(timers[j].kind) # Delay(timers[i].kind)

Tick ==
    /\ timers # <<>>
    /\ \A i \in DOMAIN timers : timers[i].left > 0
    /\ Internal([Cur EXCEPT !.timers =
                    [i \in DOMAIN @ |-> [@[i] EXCEPT !.left = @ - TimeUnit]]])

TimerDebounce(i) ==
    /\ Due(i)
    /\ timers[i].kind = "debounce"
    /\ Internal(debounceExpired([Cur EXCEPT !.timers = RemoveAt(@, i)], timers[i].task))

TimerGap(i) ==
    /\ Due(i)
    /\ timers[i].kind = "gap"
    /\ Internal(gapExpired([Cur EXCEPT !.timers = RemoveAt(@, i)]))

TimerGrace(i) ==
    /\ Due(i)
    /\ timers[i].kind = "grace"
    /\ Internal(graceExpired([Cur EXCEPT !.timers = RemoveAt(@, i)]))

(***************************************************************************)
(* scraper.js: fetchGameInfo and the three lookups.                         *)
(***************************************************************************)
\* 64 * 1024 * 1024
MD5_THRESHOLD == 67108864
LARGE_FILE_EXTS == {".iso", ".chd", ".cso", ".wbfs", ".rvz"}
ARCADE_SYSTEM_IDS == {"75", "142", "56", "53", "70"}

\* cleanRomName(filename) for the filenames of the model, as a sequence of
\* characters: extension, bracketed and parenthesized parts removed, punctuation
\* turned into spaces, trimmed
cleanRomName(filename) ==
    CASE filename = "Mario (USA).zip" -> <<"M", "a", "r", "i", "o">>
      [] filename = "kof [!].zip" -> <<"k", "o", "f">>
      [] filename = "Final.iso" -> <<"F", "i", "n", "a", "l">>
\* system.toLowerCase().includes(word) for the partition names of the model
lowerIncludes(system, word) ==
    <<system, word>> \in {<<"MAME 2003", "mame">>, <<"arcade", "arcade">>}
isArcade(systemId, system) ==
    \/ systemId \in ARCADE_SYSTEM_IDS
    \/ lowerIncludes(system, "arcade")
    \/ lowerIncludes(system, "mame")
isShortName(filename) == Len(cleanRomName(filename)) < 4

\* entries of a lookup answer (jeu, or an element of jeux): the identifier and
\* the localized title; n.toUpperCase().startsWith('ZZZ(NOTGAME)') for the titles
\* of the model
NoEntry == [id |-> "", title |-> ""]
ValidEntry == [id |-> "123", title |-> "Mario"]
NoIdEntry == [id |-> "", title |-> "Mario"]
SentinelEntry == [id |-> "9", title |-> "zzz(notgame):bios"]
UntitledEntry == [id |-> "7", title |-> ""]
Entries == {ValidEntry, NoIdEntry, SentinelEntry, UntitledEntry}
startsWithNotGame(title) == title \in {"zzz(notgame):bios", "ZZZ(NOTGAME)"}

\* what axios.get delivers: a transport error, or data with its entries (at
\* most one for jeuInfos, a list for jeuRecherche)
TransportError == [kind |-> "error", entries |-> <<>>]
Data(es) == [kind |-> "data", entries |-> es]
NoAnswer == [kind |-> "none", entries |-> <<>>]
InfoAnswers == {TransportError, Data(<<>>)} \cup {Data(<<e>>) : e \in Entries}
SearchAnswers ==
    {TransportError, Data(<<>>)} \cup {Data(<<e>>) : e \in Entries}
        \cup {Data(<<e1, e2>>) : e1 \in Entries \ {ValidEntry}, e2 \in {ValidEntry, NoIdEntry}}

NoResult == [kind |-> "null", tier |-> 0, entry |-> NoEntry]
parseGameData(entry, tier) == [kind |-> "hit", tier |-> tier, entry |-> entry]

\* a variant of isValidGame without the test of the title
isValidGame_AnyTitle(answer) ==
    Len(answer.entries) = 1 /\ answer.entries[1].id # ""

isValidGame(answer) ==
    /\ Len(answer.entries) = 1
    /\ answer.entries[1].id # ""
    /\ ~(answer.entries[1].title # "" /\ startsWithNotGame(answer.entries[1].title))

\* a variant of tryJeuInfos that takes every answer for a miss
tryJeuInfos_AlwaysMiss(answer, tier) == NoResult

\* tryJeuInfosMD5 and tryJeuInfosFilename from the answer of axios.get on
tryJeuInfos(answer, tier) ==
    IF answer.kind = "error" THEN NoResult
    ELSE IF isValidGame(answer) THEN parseGameData(answer.entries[1], tier)
    ELSE NoResult

\* searchByText from the answer of axios.get on: the first entry with a title
\* that is not the sentinel, if it has an identifier
searchByText(answer) ==
    IF answer.kind = "error" THEN NoResult
    ELSE LET named == {i \in DOMAIN answer.entries :
                          /\ answer.entries[i].title # ""
                          /\ ~startsWithNotGame(answer.entries[i].title)}
         IN  IF named = {} THEN NoResult
             ELSE LET validMatch ==
                          answer.entries[CHOOSE i \in named : \A j \in named : i <= j]
                  IN  IF validMatch.id # "" THEN parseGameData(validMatch, 3)
                      ELSE NoResult

\* a request is sent: tier 1 and 2 are jeuInfos.php, tier 3 is jeuRecherche.php;
\* scope is the systemeid parameter, Null when the parameter is left out
send(R, tier, scope) ==
    [R EXCEPT !.pc = "axios",
              !.log = Append(@, [tier |-> tier, scope |-> scope, answer |-> NoAnswer])]
return(R, result) == [R EXCEPT !.pc = "returned", !.result = result]

\* searchWithFallback up to its request
searchWithFallback(R, systemId) == send(R, 3, systemId)

\* a variant of level2 that leaves systemeid out of the request
level2_Unscoped(R) == send(R, 2, Null)

\* fetchGameInfo from the miss of tier 1 (or its omission) on
level2(R) == send(R, 2, R.systemId)

\* fetchGameInfo up to its first await
fetchGameInfo(R) ==
    IF ~R.creds THEN return(R, NoResult)
    ELSE IF R.systemId = Null THEN searchWithFallback(R, Null)
    ELSE IF R.stat = "throws" THEN return(R, NoResult)
    ELSE LET romSize == IF R.stat = "absent" THEN 0 ELSE R.size
             isLargeFormat == extname(R.filename) \in LARGE_FILE_EXTS
         IN  IF ~isLargeFormat /\ romSize <= MD5_THRESHOLD
             THEN [R EXCEPT !.pc = "md5"]
             ELSE level2(R)

\* a variant of md5Settled in which a read error ends the lookup
md5Settled_ErrorReturnsNull(R, ok) ==
    IF ok THEN send([R EXCEPT !.md5 = "ok"], 1, R.systemId)
    ELSE return([R EXCEPT !.md5 = "error"], NoResult)

\* calculateMD5 settles: the tier-1 request is sent, or the catch block is run
md5Settled(R, ok) ==
    IF ok THEN send([R EXCEPT !.md5 = "ok"], 1, R.systemId)
    ELSE level2([R EXCEPT !.md5 = "error"])

\* the pending request is answered
answered(R, answer) ==
    LET n == Len(R.log)
        tier == R.log[n].tier
        R1 == [R EXCEPT !.log[n].answer = answer]
    IN  CASE tier = 1 ->
                LET result == tryJeuInfos(answer, 1) IN
                IF result # NoResult THEN return(R1, result) ELSE level2(R1)
          [] tier = 2 ->
                LET fileMatchResult == tryJeuInfos(answer, 2) IN
                IF fileMatchResult # NoResult THEN return(R1, fileMatchResult)
                ELSE IF isArcade(R.systemId, R.system) THEN return(R1, NoResult)
                ELSE IF isShortName(R.filename) THEN return(R1, NoResult)
                ELSE searchWithFallback(R1, R.systemId)
          [] tier = 3 -> return(R1, searchByText(answer))

NoCall == [creds |-> FALSE, systemId |-> Null, system |-> Null, filename |-> Null,
           stat |-> "absent", size |-> 0, pc |-> "none", md5 |-> "none", log |-> <<>>,
           result |-> NoResult]

scannerVars == <<runningSystem, pendingQueue, isStopping, progress, queue, processing,
                 batches, inflight, refreshes, timers, games, media_library, mediaFiles,
                 disk, dirCache, reply, nAccepted, nStops, stopCalled, sinceStop,
                 condemned, discarded, fetched, play>>

scannerVarsButPlay ==
    <<runningSystem, pendingQueue, isStopping, progress, queue, processing, batches,
      inflight, refreshes, resolve, timers, games, media_library, mediaFiles, disk,
      dirCache, reply, nAccepted, nStops, stopCalled, sinceStop, condemned, discarded,
      fetched>>

\* fetchGameInfo(system, filename, fullPath, explicitSystemId) is called
ResolveCall ==
    /\ resolve.pc = "called"
    /\ resolve' = fetchGameInfo(resolve)
    /\ UNCHANGED scannerVars

\* calculateMD5 resolves, or rejects on a read error; a file that does not exist
\* cannot be read
ResolveMd5(ok) ==
    /\ resolve.pc = "md5"
    /\ ok => resolve.stat # "absent"
    /\ resolve' = md5Settled(resolve, ok)
    /\ UNCHANGED scannerVars

\* axios.get settles
ResolveAnswer(answer) ==
    /\ resolve.pc = "axios"
    /\ resolve.log[Len(resolve.log)].tier # 3 => answer \in InfoAnswers
    /\ resolve' = answered(resolve, answer)
    /\ UNCHANGED scannerVars

(***************************************************************************)
(* The scheduler under requests for three partitions.                       *)
(***************************************************************************)
SchedOptions == {{}}
SchedOutcomes == {Miss}
SchedDisk == [s \in {"nes", "snes"} |-> IF s = "nes" THEN {"f1", "f2"} ELSE {}]

\* no request for a merged archive has been made
NoPlay == [pc |-> "none"]

InitQuiet ==
    /\ runningSystem = Null
    /\ pendingQueue = <<>>
    /\ isStopping = FALSE
    /\ progress = [current |-> 0, total |-> 0]
    /\ queue = <<>>
    /\ processing = FALSE
    /\ batches = <<>>
    /\ inflight = {}
    /\ refreshes = <<>>
    /\ timers = <<>>
    /\ dirCache = EmptyFcn
    /\ reply = NoReply
    /\ nAccepted = 0
    /\ nStops = 0
    /\ stopCalled = FALSE
    /\ sinceStop = FALSE
    /\ condemned = {}
    /\ discarded = {}
    /\ fetched = <<>>

InitIdle ==
    /\ InitQuiet
    /\ play = NoPlay

InitScanner ==
    /\ InitIdle
    /\ media_library = EmptyFcn

InitProgram ==
    /\ InitScanner
    /\ resolve = NoCall

Init ==
    /\ InitProgram
    /\ games = EmptyFcn
    /\ mediaFiles = EmptyFcn
    /\ disk = SchedDisk

Next ==
    \/ \E s \in Systems, o \in SchedOptions : CallAddToSyncQueue(s, o)
    \/ CallStopSync
    \/ \E b \in 1..MaxBatches : DbAllDone(b)
    \/ \E b \in 1..MaxBatches : CleanDone(b)
    \/ \E t \in inflight : TaskDeleteDone(t)
    \/ \E t \in inflight, oc \in SchedOutcomes : TaskScrapeDone(t, oc)
    \/ \E t \in inflight : TaskThrows(t)
    \/ \E t \in inflight : TaskInsertDone(t)
    \/ Tick
    \/ \E i \in DOMAIN timers : TimerDebounce(i)
    \/ \E i \in DOMAIN timers : TimerGap(i)
    \/ \E i \in DOMAIN timers : TimerGrace(i)

Spec == Init /\ [][Next]_vars

\* the steps the program takes by itself: completions of I/O and timers
InternalNext ==
    \/ \E b \in 1..MaxBatches : DbAllDone(b)
    \/ \E b \in 1..MaxBatches : CleanDone(b)
    \/ \E t \in inflight : TaskDeleteDone(t)
    \/ \E t \in inflight, oc \in SchedOutcomes : TaskScrapeDone(t, oc)
    \/ \E t \in inflight : TaskThrows(t)
    \/ \E t \in inflight : TaskInsertDone(t)
    \/ Tick
    \/ \E i \in DOMAIN timers : TimerDebounce(i)
    \/ \E i \in DOMAIN timers : TimerGap(i)
    \/ \E i \in DOMAIN timers : TimerGrace(i)

\* Time advances, every awaited operation completes and every timer fires: weak
\* fairness of Tick and of InternalNext.  InternalNext is enabled exactly when
\* some callback is pending, so WF_vars(InternalNext) is written with its
\* enabling condition spelled out.
CallbackPending ==
    \/ timers # <<>>
    \/ inflight # {}
    \/ \E b \in DOMAIN batches : batches[b].pc \in {"dbread", "cleaning"}
FairSpec ==
    /\ Spec
    /\ WF_vars(Tick)
    /\ ([]<>(~CallbackPending) \/ []<><<InternalNext>>_vars)

(***************************************************************************)
(* State predicates the properties are written with.                       *)
(***************************************************************************)
\* a batch that has been started and has neither finished nor been stopped
Active(b) == b \in DOMAIN batches /\ batches[b].pc # "done" /\ ~batches[b].stopped
InQueue(system) == \E i \in DOMAIN pendingQueue : pendingQueue[i].system = system
Idle == runningSystem = Null /\ pendingQueue = <<>> /\ ~isStopping
\* no callback is pending: the program does nothing more until the next request
Quiescent == ~CallbackPending
BatchBegins == Len(batches') = Len(batches) + 1

(***************************************************************************)
(* Reconciliation of one partition, run twice with the same options and no  *)
(* change of the ROM directory in between.  The catalog and the media       *)
(* directory start as an earlier run can have left them.                    *)
(***************************************************************************)
ReconSystem == "nes"
ReconOptions == {{}, {<<"syncVideo", TRUE>>}, {<<"syncBoxArt", TRUE>>}, {<<"overwrite", TRUE>>}}
ReconOutcomes ==
    {Miss,
     FullHit("T1"),
     Hit("T1", FALSE, ServedCats, AllOk),
     Hit("T1", TRUE, ServedCats \ {"covers"}, AllOk),
     Hit("T1", TRUE, ServedCats, [AllOk EXCEPT !["covers"] = "httpfail"]),
     Hit("T1", TRUE, ServedCats, [AllOk EXCEPT !["marquees"] = "empty"]),
     Hit("T1", TRUE, ServedCats, [AllOk EXCEPT !["screenshots"] = "writefail"])}

\* what an earlier run can have left for file f2: nothing, a row without
\* description and media, or a complete row with its files
BareRow == [BlankRow EXCEPT !.name = "f2", !.desc = Placeholder]
FullRow == [BlankRow EXCEPT !.name = "T1", !.desc = RealDesc,
                            !.image_path = <<ReconSystem, "covers", "T1">>,
                            !.screenshot_path = <<ReconSystem, "screenshots", "T1">>,
                            !.marquee_path = <<ReconSystem, "marquees", "T1">>]
FullRowFiles == [p \in {FullRow.image_path, FullRow.screenshot_path, FullRow.marquee_path} |->
                    [src |-> <<"T1", p[2]>>, empty |-> FALSE]]
ReconStarts ==
    {[games |-> EmptyFcn, mediaFiles |-> EmptyFcn],
     [games |-> [k \in {<<ReconSystem, "f2">>} |-> BareRow], mediaFiles |-> EmptyFcn],
     [games |-> [k \in {<<ReconSystem, "f2">>} |-> FullRow], mediaFiles |-> FullRowFiles]}

InitRecon ==
    /\ InitProgram
    /\ disk = [s \in {ReconSystem} |-> {"f1", "f2"}]
    /\ \E st \in ReconStarts : games = st.games /\ mediaFiles = st.mediaFiles

\* POST /api/scan/nes: the first run with any of the options, the second one,
\* once the first has completed, with the options of the first
ReconSync(options) ==
    /\ Len(batches) \in {0, 1}
    /\ Idle
    /\ ~CallbackPending
    /\ Len(batches) = 1 =>
            batches[1].pc = "done" /\ MergeOps(options) = batches[1].syncOps
    /\ CallAddToSyncQueue(ReconSystem, options)

NextRecon ==
    \/ \E o \in ReconOptions : ReconSync(o)
    \/ \E b \in 1..MaxBatches : DbAllDone(b)
    \/ \E b \in 1..MaxBatches : CleanDone(b)
    \/ \E t \in inflight : TaskDeleteDone(t)
    \/ \E t \in inflight, oc \in ReconOutcomes : TaskScrapeDone(t, oc)
    \/ \E t \in inflight : TaskThrows(t)
    \/ \E t \in inflight : TaskInsertDone(t)
    \/ Tick
    \/ \E i \in DOMAIN timers : TimerGap(i)

SpecRecon == InitRecon /\ [][NextRecon]_vars

\* C1: at most one batch is active (started, not finished, not stopped) at any
\* instant, whatever the interleaving of requests, completions and timers
C1_OneBatchActive == Cardinality({b \in DOMAIN batches : Active(b)}) <= 1

\* C2: the runner executes at most one task at any instant
C2_OneTaskInFlight == Cardinality(inflight) <= 1

\* C3: addToSyncQueue(p) is rejected whenever p is running or pending, and a
\* rejected call changes nothing of the scheduler and starts no work
C3_RejectedIsNoOp ==
    [][(reply'.op = "addToSyncQueue") =>
        /\ (runningSystem = reply'.system \/ InQueue(reply'.system)) => ~reply'.success
        /\ ~reply'.success =>
              UNCHANGED <<runningSystem, pendingQueue, isStopping, progress, queue,
                          processing, batches, inflight, timers, games, mediaFiles>>]_vars
C3_Witness ==
    /\ reply.op = "addToSyncQueue"
    /\ ~reply.success
    /\ InQueue(reply.system)
    /\ runningSystem # Null

\* C4: the tasks of a batch are counted once each, whether they succeed, throw or
\* are skipped, and a task that has not been counted is still queued or running
\* unless a stop discarded it; when the count reaches the size of the work list
\* the batch sweeps once, and the step that ends a batch releases the slot; every
\* batch that has started ends or is stopped
QueuedOf(b) == {queue[i].filename : i \in {j \in DOMAIN queue : queue[j].batch = b}}
RunningOf(b) == {t.filename : t \in {u \in inflight : u.batch = b}}
C4_Counting ==
    \A b \in DOMAIN batches :
        LET B == batches[b] IN
        (B.pc \in {"tasks", "cleaning"}) =>
            /\ B.completedCount = Len(B.counted)
            /\ Cardinality(Range(B.counted)) = Len(B.counted)
            /\ Range(B.counted) \cap (QueuedOf(b) \cup RunningOf(b)) = {}
            /\ Range(B.counted) \cup QueuedOf(b) \cup RunningOf(b) \subseteq Range(B.taskList)
            /\ ~B.stopped =>
                  Range(B.counted) \cup QueuedOf(b) \cup RunningOf(b) = Range(B.taskList)
            /\ (B.pc = "tasks" /\ Referenced(Cur, b)) => B.completedCount < B.total
            /\ B.pc = "cleaning" => B.completedCount = B.total /\ B.sweeps = 1
C4_Release ==
    \A b \in DOMAIN batches' :
        (batches'[b].pc = "done" /\ (b \in DOMAIN batches => batches[b].pc # "done"))
            => runningSystem' = Null
C4_BatchTerminates ==
    /\ []C4_Counting
    /\ [][C4_Release]_vars
    /\ \A b \in 1..MaxBatches :
          (b \in DOMAIN batches)
              ~> (b \in DOMAIN batches /\ (batches[b].pc = "done" \/ batches[b].stopped))
C4_Witness ==
    /\ Len(batches) = 1
    /\ batches[1].pc = "cleaning"
    /\ ~batches[1].stopped
    /\ batches[1].total = 2
    /\ batches[1].completedCount = 2
    /\ progress.current < 2

\* C5: a task that was queued in the runner when stopSync was called never
\* executes afterwards
C5_DiscardedNeverRuns ==
    \A t \in inflight : [batch |-> t.batch, filename |-> t.filename] \notin condemned

\* C6: once stopSync has been called, a batch begins only in the step of an
\* accepted addToSyncQueue
C6_NoStartAfterStop ==
    [][(stopCalled /\ BatchBegins) => (reply'.op = "addToSyncQueue" /\ reply'.success)]_vars

\* C7: after a stopSync that found a partition running or pending, and with no
\* request accepted since, the scheduler comes to Idle: no partition running, the
\* pending queue empty, the stopping flag cleared
C7_StopLeadsToIdle == sinceStop ~> (Idle \/ ~sinceStop)
C7_Witness ==
    /\ sinceStop
    /\ Idle
    /\ \A i \in DOMAIN timers : timers[i].kind # "grace"
    /\ \E b \in DOMAIN batches : batches[b].stopped /\ batches[b].pc = "tasks"

\* C8 (necessary condition): while a partition is pending, some callback that
\* can lead to its dispatch is still pending
C8_PendingIsDispatched == (pendingQueue # <<>>) => ~Quiescent

\* C9: batches start in the order in which their requests were accepted
C9_Fifo ==
    \A b \in DOMAIN batches : \A k \in 1..nAccepted :
        k < batches[b].ticket =>
            \/ k \in discarded
            \/ \E b2 \in 1..(b - 1) : batches[b2].ticket = k

\* the second run has read the catalog and is about to compute its diff
SecondRunDiffs ==
    /\ Len(batches) = 2
    /\ batches[1].pc = "done"
    /\ batches[2].pc = "dbread"
    /\ batches[2].syncOps.incremental
SecondToUpdate ==
    toUpdate(Cur, batches[2].syncOps, batches[2].diskFiles, dbGames(Cur, batches[2].system))

DiffSystem == ReconSystem
DiffDisks == {{"f1", "f2", "readme"}, {"f1", "saves"}}
DiffOptions ==
    {{}, {<<"incremental", FALSE>>}, {<<"syncVideo", TRUE>>}, {<<"syncBoxArt", TRUE>>},
     {<<"syncInfo", FALSE>>, <<"syncImages", FALSE>>, <<"syncMarquees", FALSE>>}}
DiffOutcomes == {Miss, FullHit("T1")}

RowsOf(fs, row) == [k \in {<<DiffSystem, f>> : f \in fs} |-> row]
DiffStarts ==
    {[games |-> EmptyFcn, mediaFiles |-> EmptyFcn],
     [games |-> RowsOf({"f2"}, BareRow), mediaFiles |-> EmptyFcn],
     [games |-> RowsOf({"f2"}, FullRow), mediaFiles |-> FullRowFiles],
     [games |-> RowsOf({"f1", "f2"}, FullRow), mediaFiles |-> FullRowFiles],
     [games |-> RowsOf({"f2"}, [FullRow EXCEPT !.desc = NoDesc]), mediaFiles |-> FullRowFiles],
     [games |-> RowsOf({"f2"}, FullRow),
      mediaFiles |-> [FullRowFiles EXCEPT ![FullRow.marquee_path].empty = TRUE]],
     [games |-> RowsOf({"f2"}, FullRow),
      mediaFiles |-> Drop(FullRowFiles, {FullRow.image_path})],
     \* a cover named after the ROM was put in the media folder by hand
     \* and the file manager has left a hidden file next to it
     [games |-> RowsOf({"f2"}, BareRow),
      mediaFiles |-> [p \in {<<DiffSystem, "covers", "f2">>,
                             <<DiffSystem, "covers", ".DS_Store">>} |->
                        [src |-> <<"f2", "local">>, empty |-> FALSE]]]}

InitDiff ==
    /\ InitProgram
    /\ \E d \in DiffDisks : disk = [s \in {DiffSystem} |-> d]
    /\ \E st \in DiffStarts : games = st.games /\ mediaFiles = st.mediaFiles

\* POST /api/scan/nes, once
DiffSync(options) ==
    /\ Len(batches) = 0
    /\ CallAddToSyncQueue(DiffSystem, options)

NextDiff ==
    \/ \E o \in DiffOptions : DiffSync(o)
    \/ CallStopSync
    \/ \E b \in 1..MaxBatches : DbAllDone(b)
    \/ \E b \in 1..MaxBatches : CleanDone(b)
    \/ \E t \in inflight : TaskDeleteDone(t)
    \/ \E t \in inflight, oc \in DiffOutcomes : TaskScrapeDone(t, oc)
    \/ \E t \in inflight : TaskThrows(t)
    \/ \E t \in inflight : TaskInsertDone(t)
    \/ Tick
    \/ \E i \in DOMAIN timers : TimerGap(i)
    \/ \E i \in DOMAIN timers : TimerGrace(i)

SpecDiff == InitDiff /\ [][NextDiff]_vars

\* the step in which batch b computes its diff
DiffStep(b) ==
    /\ b \in DOMAIN batches
    /\ batches[b].pc = "dbread"
    /\ batches'[b].pc # "dbread"
\* the listing D restricted to the ROM extensions, and the filenames of the
\* rows C of the partition, as they are when the diff is computed
ListedRoms(system) == {f \in disk[system] : extname(f) \in ROM_EXTS}
Cataloged(system) == {k[2] : k \in {q \in DOMAIN games : q[1] = system}}

\* C11 (as stated): toAdd = D \ C, toDelete = C \ D, toUpdate is a subset of
\* D \cap C and all of it when incremental is false, the three sets are pairwise
\* disjoint; with two ROMs on disk, a row for one of them only, incremental and
\* syncInfo set, the diff is toAdd = the other ROM, toUpdate = {}, toDelete = {}
C11_DiffSets ==
    [][\A b \in 1..MaxBatches : DiffStep(b) =>
        LET D == ListedRoms(batches[b].system)
            C == Cataloged(batches[b].system)
            B == batches'[b]
        IN  /\ B.toAdd = D \ C
            /\ B.toDelete = C \ D
            /\ B.toUpdate \subseteq D \cap C
            /\ batches[b].syncOps.incremental = FALSE => B.toUpdate = D \cap C
            /\ B.toAdd \cap B.toDelete = {}
            /\ B.toAdd \cap B.toUpdate = {}
            /\ B.toDelete \cap B.toUpdate = {}
            /\ (D = {"f1", "f2"} /\ C = {"f2"} /\ batches[b].syncOps.incremental
                    /\ batches[b].syncOps.syncInfo) =>
                  (B.toAdd = {"f1"} /\ B.toUpdate = {} /\ B.toDelete = {})]_vars

\* C11 (amended): the same, where toUpdate is all of D \cap C with incremental
\* false only if no stop is in progress when the diff is computed, and the
\* scenario yields an empty toUpdate only if the row on record is complete for
\* the options in force and no stop is in progress
C11_DiffSetsUnlessStopping ==
    [][\A b \in 1..MaxBatches : DiffStep(b) =>
        LET D == ListedRoms(batches[b].system)
            C == Cataloged(batches[b].system)
            B == batches'[b]
            ops == batches[b].syncOps
        IN  /\ B.toAdd = D \ C
            /\ B.toDelete = C \ D
            /\ B.toUpdate \subseteq D \cap C
            /\ (ops.incremental = FALSE /\ ~isStopping) => B.toUpdate = D \cap C
            /\ isStopping => B.toUpdate = {}
            /\ B.toAdd \cap B.toDelete = {}
            /\ B.toAdd \cap B.toUpdate = {}
            /\ B.toDelete \cap B.toUpdate = {}
            /\ (D = {"f1", "f2"} /\ C = {"f2"} /\ ops.incremental /\ ops.syncInfo) =>
                  /\ B.toAdd = {"f1"}
                  /\ B.toDelete = {}
                  /\ (/\ games[<<batches[b].system, "f2">>] = FullRow
                      /\ mediaFiles = FullRowFiles
                      /\ ~ops.syncVideo
                      /\ ~ops.syncBoxArt) => B.toUpdate = {}]_vars
\* the diff of the scenario has been computed, the row on record being complete
C11_Witness ==
    \E b \in DOMAIN batches :
        /\ batches[b].pc = "tasks"
        /\ batches[b].diskFiles = {"f1", "f2"}
        /\ DOMAIN batches[b].dbFilenameMap = {"f2"}
        /\ batches[b].syncOps.incremental
        /\ batches[b].syncOps.syncInfo
        /\ batches[b].toAdd = {"f1"}
        /\ batches[b].toUpdate = {}
        /\ batches[b].toDelete = {}
        /\ ~batches[b].stopped


\* the record g is incomplete for the options ops: no description where one is
\* requested, or a requested asset category whose recorded path is unset or
\* whose file is missing or has no bytes
RequestedAssets(ops) ==
    {c \in {"covers", "videos", "marquees", "boxtextures"} : ops[CatOption(c)]}
Incomplete(g, ops) ==
    \/ ops.syncInfo /\ g.desc \in {NoDesc, Placeholder}
    \/ \E c \in RequestedAssets(ops) :
          \/ g[Column(c)] = NullPath
          \/ g[Column(c)] \notin DOMAIN mediaFiles
          \/ mediaFiles[g[Column(c)]].empty

\* C12 (as stated): with incremental set, a file on disk and in the catalog is in
\* toUpdate if and only if its record is incomplete for the requested options
C12_UpdateIffIncomplete ==
    [][\A b \in 1..MaxBatches : (DiffStep(b) /\ batches[b].syncOps.incremental) =>
        \A f \in ListedRoms(batches[b].system) \cap Cataloged(batches[b].system) :
            f \in batches'[b].toUpdate
                <=> Incomplete(games[<<batches[b].system, f>>], batches[b].syncOps)]_vars

\* C12 (amended): with incremental set, a file on disk and in the catalog is in
\* toUpdate if and only if its record is incomplete for the requested options
\* and no stop is in progress when the diff is computed
C12_UpdateIffIncompleteAndNotStopping ==
    [][\A b \in 1..MaxBatches : (DiffStep(b) /\ batches[b].syncOps.incremental) =>
        \A f \in ListedRoms(batches[b].system) \cap Cataloged(batches[b].system) :
            f \in batches'[b].toUpdate
                <=> /\ ~isStopping
                    /\ Incomplete(games[<<batches[b].system, f>>], batches[b].syncOps)]_vars
\* a row with a description and all its paths set is selected because the file
\* of its marquee has no bytes
C12_Witness ==
    \E b \in DOMAIN batches :
        /\ batches[b].pc = "tasks"
        /\ batches[b].syncOps.incremental
        /\ batches[b].toUpdate = {"f2"}
        /\ "f2" \in DOMAIN batches[b].dbFilenameMap
        /\ batches[b].dbFilenameMap["f2"] = FullRow
        /\ FullRow.marquee_path \in DOMAIN mediaFiles
        /\ mediaFiles[FullRow.marquee_path].empty
        /\ FullRow.image_path \in DOMAIN mediaFiles
        /\ ~mediaFiles[FullRow.image_path].empty


\* some row of the partition of file p records p in one of its asset columns
ReferencedFile(p) ==
    \E k \in DOMAIN games : k[1] = p[1] /\ \E c \in Cats : games[k][Column(c)] = p
\* the step in which the sweep of batch b completes
SweepStep(b) ==
    /\ b \in DOMAIN batches
    /\ batches[b].pc = "cleaning"
    /\ batches'[b].pc = "done"

AbortStep(b) ==
    /\ b \notin DOMAIN batches
    /\ b \in DOMAIN batches'
    /\ batches'[b].system \notin DOMAIN disk
DebounceTimerOf(task) == [kind |-> "debounce", left |-> DebounceMs, task |-> task]

\* C14: a batch whose directory cannot be read ends in the step that began it:
\* the catalog and the media directory are unchanged, nothing is added to the
\* runner, runningSystem is null afterwards, and the head of the pending queue,
\* if there is one, is taken off the queue and handed to a timer; the partition a
\* timer holds becomes a batch
C14_AbortFrame ==
    \A b \in 1..MaxBatches : AbortStep(b) =>
        /\ games' = games
        /\ mediaFiles' = mediaFiles
        /\ queue' = queue
        /\ inflight' = inflight
        /\ batches'[b].pc = "done"
        /\ batches'[b].taskList = <<>>
        /\ runningSystem' = Null
        /\ IF pendingQueue # <<>>
           THEN /\ pendingQueue' = Tail(pendingQueue)
                /\ timers' # <<>>
                /\ timers'[Len(timers')] = DebounceTimerOf(Head(pendingQueue))
           ELSE /\ pendingQueue' = <<>>
                /\ \A i \in DOMAIN timers' : timers'[i] \in Range(timers)
C14_UnreadableAborts ==
    /\ [][C14_AbortFrame]_vars
    /\ \A k \in 1..MaxBatches :
          (\E i \in DOMAIN timers : timers[i].kind = "debounce" /\ timers[i].task.ticket = k)
              ~> (\E b \in DOMAIN batches : batches[b].ticket = k)
\* the batch of the unreadable partition has just ended and has handed the
\* pending partition to a timer
C14_Witness ==
    /\ Len(batches) = 2
    /\ batches[2].system = "gone"
    /\ batches[2].pc = "done"
    /\ batches[1].pc = "done"
    /\ runningSystem = Null
    /\ pendingQueue = <<>>
    /\ \E i \in DOMAIN timers :
          /\ timers[i].kind = "debounce"
          /\ timers[i].left = DebounceMs
          /\ timers[i].task.system = "nes"


(***************************************************************************)
(* Single-item refreshes (POST /api/scan-single) and one reconciliation of  *)
(* the same partition, in any interleaving of their awaits.                 *)
(***************************************************************************)
RefreshDisk == {"f1", "f2"}
RefreshFiles == {"f2"}
RefreshOptions == {Undefined, {}}
RefreshOutcomes == {Miss, FullHit("T1")}
\* the cover of T1 as an earlier run for another partition downloaded it
ElsewhereCover == <<"snes", "covers", "T1">>
RefreshStarts ==
    {[games |-> EmptyFcn, mediaFiles |-> EmptyFcn, media_library |-> EmptyFcn],
     [games |-> RowsOf({"f2"}, BareRow), mediaFiles |-> EmptyFcn,
      media_library |-> EmptyFcn],
     [games |-> RowsOf({"f1", "f2"}, FullRow), mediaFiles |-> FullRowFiles,
      media_library |-> EmptyFcn],
     [games |-> RowsOf({"f2"}, FullRow),
      mediaFiles |-> [p \in DOMAIN FullRowFiles \cup {ElsewhereCover} |->
                        IF p = ElsewhereCover THEN [src |-> <<"T1", "covers">>, empty |-> FALSE]
                        ELSE FullRowFiles[p]],
      media_library |-> [u \in {<<"T1", "covers">>} |-> ElsewhereCover]]}

InitRefresh ==
    /\ InitIdle
    /\ resolve = NoCall
    /\ disk = [s \in {DiffSystem} |-> RefreshDisk]
    /\ \E st \in RefreshStarts :
            games = st.games /\ mediaFiles = st.mediaFiles /\ media_library = st.media_library

RefreshScan ==
    /\ Len(batches) = 0
    /\ CallAddToSyncQueue(DiffSystem, {})

NextRefresh ==
    \/ RefreshScan
    \/ \E f \in RefreshFiles, o \in RefreshOptions : CallSyncSingleGame(DiffSystem, f, o)
    \/ \E r \in 1..MaxRefreshes : RefreshGetDone(r)
    \/ \E r \in 1..MaxRefreshes : RefreshDeleteDone(r)
    \/ \E r \in 1..MaxRefreshes, oc \in RefreshOutcomes : RefreshScrapeDone(r, oc)
    \/ \E r \in 1..MaxRefreshes : RefreshInsertDone(r)
    \/ \E r \in 1..MaxRefreshes : RefreshCleanDone(r)
    \/ \E b \in 1..MaxBatches : DbAllDone(b)
    \/ \E b \in 1..MaxBatches : CleanDone(b)
    \/ \E t \in inflight : TaskDeleteDone(t)
    \/ \E t \in inflight, oc \in RefreshOutcomes : TaskScrapeDone(t, oc)
    \/ \E t \in inflight : TaskInsertDone(t)
    \/ Tick
    \/ \E i \in DOMAIN timers : TimerGap(i)

SpecRefresh == InitRefresh /\ [][NextRefresh]_vars

\* the step in which the task of file f of some batch completes its INSERT, and
\* the step in which a single-item refresh of file f returns
TaskCompletes(system, f) ==
    \E t \in inflight :
        /\ t.pc = "insert"
        /\ t.filename = f
        /\ batches[t.batch].system = system
        /\ t \notin inflight'
RefreshCompletes(system, f) ==
    \E r \in DOMAIN refreshes :
        /\ refreshes[r].pc = "clean"
        /\ refreshes'[r].pc = "done"
        /\ refreshes[r].system = system
        /\ refreshes[r].filename = f

\* C15: the catalog is keyed by path (system, filename), and a row is never
\* changed in place: it is deleted and inserted anew; when the per-file task or
\* the single-item refresh of a file on disk completes, the catalog has a row
\* for that file
C15_OneRowPerFile ==
    [][/\ \A k \in (DOMAIN games) \cap (DOMAIN games') : games'[k] = games[k]
       /\ \A f \in ListedRoms(DiffSystem) :
            (TaskCompletes(DiffSystem, f) \/ RefreshCompletes(DiffSystem, f))
                => <<DiffSystem, f>> \in DOMAIN games']_vars


(***************************************************************************)
(* One call of fetchGameInfo, for every configuration of the credentials    *)
(* and the lookup ID, partition names and files of each kind, and every     *)
(* answer of the lookup service.                                            *)
(***************************************************************************)
ResolveSystemIds == {Null, "1", "75"}
ResolveSystems == {"nes", "MAME 2003"}
ResolveFilenames == {"Mario (USA).zip", "kof [!].zip", "Final.iso"}
ResolveStats == {[stat |-> "absent", size |-> 0],
                 [stat |-> "file", size |-> MD5_THRESHOLD],
                 [stat |-> "file", size |-> MD5_THRESHOLD + 1],
                 [stat |-> "throws", size |-> 0]}

InitResolve ==
    /\ InitScanner
    /\ games = EmptyFcn
    /\ mediaFiles = EmptyFcn
    /\ disk = SchedDisk
    /\ \E creds \in BOOLEAN, systemId \in ResolveSystemIds, system \in ResolveSystems,
          filename \in ResolveFilenames, st \in ResolveStats :
            resolve = [creds |-> creds, systemId |-> systemId, system |-> system,
                       filename |-> filename, stat |-> st.stat, size |-> st.size,
                       pc |-> "called", md5 |-> "none", log |-> <<>>,
                       result |-> NoResult]

NextResolve ==
    \/ ResolveCall
    \/ \E ok \in BOOLEAN : ResolveMd5(ok)
    \/ \E answer \in SearchAnswers : ResolveAnswer(answer)

SpecResolve == InitResolve /\ [][NextResolve]_vars


\* the requests of the call so far, and the position of the request of a tier
Log == resolve.log
Returned == resolve.pc = "returned"
Sent(tier) == \E i \in DOMAIN Log : Log[i].tier = tier
\* an entry that may be taken for a game: it has an identifier and its title is
\* not the sentinel
Acceptable(e) == e.id # "" /\ ~startsWithNotGame(e.title)
\* the answer to request i has been taken for a hit
TakenForHit(i) ==
    /\ Returned
    /\ i = Len(Log)
    /\ resolve.result.kind = "hit"
    /\ resolve.result.tier = Log[i].tier
\* the answer to request i holds an acceptable entry where the tier looks for it
HoldsGame(i) ==
    /\ Log[i].answer.kind = "data"
    /\ IF Log[i].tier = 3
       THEN \E k \in DOMAIN Log[i].answer.entries :
                /\ Acceptable(Log[i].answer.entries[k])
                /\ Log[i].answer.entries[k].title # ""
                /\ \A j \in 1..(k - 1) :
                      \/ Log[i].answer.entries[j].title = ""
                      \/ startsWithNotGame(Log[i].answer.entries[j].title)
       ELSE /\ Len(Log[i].answer.entries) = 1
            /\ Acceptable(Log[i].answer.entries[1])
Answered(i) == Log[i].answer # NoAnswer

\* C16: the requests of a call are for strictly increasing tiers (each tier at
\* most once, in the order 1, 2, 3); an answer that holds a game ends the call
\* with the match of that tier, no request follows it; and a match is returned
\* only from the answer to the last request
C16_TiersInOrder ==
    /\ \A i, j \in DOMAIN Log : i < j => Log[i].tier < Log[j].tier
    /\ \A i \in DOMAIN Log : (Answered(i) /\ HoldsGame(i)) => TakenForHit(i)
    /\ (Returned /\ resolve.result.kind = "hit") =>
            /\ Log # <<>>
            /\ resolve.result.tier = Log[Len(Log)].tier
            /\ HoldsGame(Len(Log))
\* tier 1 and tier 2 have missed and tier 3 has delivered the match
C16_Witness ==
    /\ Returned
    /\ Len(Log) = 3
    /\ resolve.result = parseGameData(ValidEntry, 3)
    /\ Log[1].tier = 1

\* C17: when the hashing or the tier-1 request has failed and the answer of tier
\* 2 holds a game, the call returns the match of tier 2 and sends no tier-3
\* request; a transport error at a tier is a miss of that tier: no match of that
\* tier is returned, and after tier 1 the tier-2 request is sent
Tier1Failed ==
    \/ resolve.md5 = "error"
    \/ \E i \in DOMAIN Log : Log[i].tier = 1 /\ Log[i].answer = TransportError
C17_FailureCascade ==
    /\ \A i \in DOMAIN Log :
          (Tier1Failed /\ Log[i].tier = 2 /\ Answered(i) /\ HoldsGame(i)) =>
              /\ Returned
              /\ resolve.result = parseGameData(Log[i].answer.entries[1], 2)
              /\ ~Sent(3)
    /\ \A i \in DOMAIN Log :
          Log[i].answer = TransportError =>
              /\ ~TakenForHit(i)
              /\ Log[i].tier = 1 => Sent(2)
              /\ (Returned /\ i = Len(Log)) => resolve.result = NoResult
    /\ (resolve.md5 = "error" /\ resolve.pc # "md5") => Sent(2)
\* the tier-1 request has met a transport error and tier 2 has delivered the match
C17_Witness ==
    /\ Returned
    /\ Len(Log) = 2
    /\ Log[1].tier = 1
    /\ Log[1].answer = TransportError
    /\ resolve.result = parseGameData(ValidEntry, 2)

\* C18: for an arcade-style partition (lookup ID in the list, or a name with
\* 'arcade' or 'mame') or a cleaned name of fewer than 4 characters, no tier-3
\* request is sent, whatever the lookup ID
C18_NoSearchForArcadeOrShort ==
    (isArcade(resolve.systemId, resolve.system) \/ isShortName(resolve.filename))
        => ~Sent(3)

\* C19 (as stated): without lookup ID a call sends no tier-1 and no tier-2
\* request and exactly one tier-3 request, without scope; with a lookup ID every
\* request carries it
C19_ScopeFollowsLookupId ==
    /\ resolve.systemId = Null =>
            /\ ~Sent(1)
            /\ ~Sent(2)
            /\ Returned => (Len(Log) = 1 /\ Log[1].tier = 3)
            /\ \A i \in DOMAIN Log : Log[i].scope = Null
    /\ resolve.systemId # Null =>
            \A i \in DOMAIN Log : Log[i].scope = resolve.systemId

\* C19 (amended): the same, where the one tier-3 request without scope is sent
\* only if the credentials of the service are configured; without them a call
\* sends nothing
C19_ScopeFollowsLookupIdGivenCredentials ==
    /\ resolve.systemId = Null =>
            /\ ~Sent(1)
            /\ ~Sent(2)
            /\ (Returned /\ resolve.creds) => (Len(Log) = 1 /\ Log[1].tier = 3)
            /\ \A i \in DOMAIN Log : Log[i].scope = Null
    /\ resolve.systemId # Null =>
            \A i \in DOMAIN Log : Log[i].scope = resolve.systemId
    /\ ~resolve.creds => Log = <<>>
\* a call with a lookup ID has gone through the three tiers
C19_Witness ==
    /\ Returned
    /\ resolve.systemId = "1"
    /\ Len(Log) = 3
    /\ Log[3].scope = "1"

\* C20: a returned match is built from an entry of the last answer that has an
\* identifier and whose title is not the sentinel; an answer without such an
\* entry is a miss: no match of its tier is returned, after tier 1 the tier-2
\* request follows, after tier 2 the tier-3 request follows unless the partition
\* is arcade-style or the name short, after tier 3 the call returns null
C20_OnlyValidatedHits ==
    /\ (Returned /\ resolve.result.kind = "hit") =>
            /\ Acceptable(resolve.result.entry)
            /\ Log # <<>>
            /\ resolve.result.entry \in Range(Log[Len(Log)].answer.entries)
    /\ \A i \in DOMAIN Log :
          (Answered(i) /\ ~HoldsGame(i)) =>
              /\ ~TakenForHit(i)
              /\ Log[i].tier = 1 => Sent(2)
              /\ Log[i].tier = 2 =>
                    IF isArcade(resolve.systemId, resolve.system)
                          \/ isShortName(resolve.filename)
                    THEN Returned /\ resolve.result = NoResult /\ ~Sent(3)
                    ELSE Sent(3)
              /\ Log[i].tier = 3 => (Returned /\ resolve.result = NoResult)
\* tier 1 has answered with an entry under the sentinel title, tier 2 with an
\* entry without identifier, and the search has been sent
C20_Witness ==
    /\ Len(Log) = 3
    /\ Log[1].answer = Data(<<SentinelEntry>>)
    /\ Log[2].answer = Data(<<NoIdEntry>>)

(***************************************************************************)
(* The row a per-file task writes when the resolver finds nothing.          *)
(***************************************************************************)
\* the step in which task t, whose lookup returned null, writes its row for a
\* file that had a row before
MissRewrite(t) ==
    /\ t \in inflight
    /\ t.pc = "insert"
    /\ t.scraperData = "miss"
    /\ t \notin inflight'
    /\ HasOld(Cur, t.batch, t.filename)
    /\ <<batches[t.batch].system, t.filename>> \in DOMAIN games'
RewrittenRow(t) == games'[<<batches[t.batch].system, t.filename>>]
AssetColumns == {"image_path", "screenshot_path", "video_path", "marquee_path",
                 "box_texture_path"}

DlSystems == {"nes", "snes"}
DlUrl == <<"T1", "covers">>
DlTarget(system) == <<system, "covers", "T1">>
Fetched == [src |-> DlUrl, empty |-> FALSE]
Truncated == [src |-> DlUrl, empty |-> TRUE]
Foreign == [src |-> <<"T0", "covers">>, empty |-> FALSE]
One(k, v) == [x \in {k} |-> v]
DlStarts ==
    {[mediaFiles |-> EmptyFcn, media_library |-> EmptyFcn],
     \* an earlier download, registered
     [mediaFiles |-> One(DlTarget("nes"), Fetched),
      media_library |-> One(DlUrl, DlTarget("nes"))],
     \* a file of other content under the target's name, never registered
     [mediaFiles |-> One(DlTarget("nes"), Foreign), media_library |-> EmptyFcn],
     \* an earlier download that arrived with no bytes, registered
     [mediaFiles |-> One(DlTarget("nes"), Truncated),
      media_library |-> One(DlUrl, DlTarget("nes"))],
     \* the registered copy was removed since
     [mediaFiles |-> EmptyFcn, media_library |-> One(DlUrl, DlTarget("nes"))],
     [mediaFiles |-> One(DlTarget("snes"), Foreign),
      media_library |-> One(DlUrl, DlTarget("nes"))]}

InitDownload ==
    /\ InitIdle
    /\ resolve = NoCall
    /\ games = EmptyFcn
    /\ disk = SchedDisk
    /\ \E st \in DlStarts : mediaFiles = st.mediaFiles /\ media_library = st.media_library

\* await downloadMedia(url, system, type, fileName, overwrite), to its return
CallDownloadMedia(url, system, type, filename, overwrite, dl) ==
    /\ Len(fetched) < MaxCalls
    /\ LET r == downloadMedia(Cur, url, system, type, filename, overwrite, dl) IN
        /\ mediaFiles' = r.S.mediaFiles
        /\ media_library' = r.S.media_library
        /\ fetched' = Append(fetched,
                [url |-> url, target |-> <<system, type, filename>>,
                 overwrite |-> overwrite, dl |-> dl, log |-> r.log, threw |-> r.threw,
                 files |-> mediaFiles, library |-> media_library])
    /\ UNCHANGED <<runningSystem, pendingQueue, isStopping, progress, queue, processing,
                   batches, inflight, refreshes, resolve, timers, games, disk, dirCache,
                   reply, nAccepted, nStops, stopCalled, sinceStop, condemned, discarded,
                   play>>

NextDownload ==
    \E system \in DlSystems, overwrite \in BOOLEAN, dl \in DlOutcomes :
        CallDownloadMedia(DlUrl, system, "covers", "T1", overwrite, dl)

SpecDownload == InitDownload /\ [][NextDownload]_vars

\* what call i did, and the media directory and the table when it returned
Did(i, ev) == \E k \in DOMAIN fetched[i].log : fetched[i].log[k] = ev
FilesAfter(i) == IF i = Len(fetched) THEN mediaFiles ELSE fetched[i + 1].files
LibraryAfter(i) == IF i = Len(fetched) THEN media_library ELSE fetched[i + 1].library
\* the state in which call i was made, with files and table replaced
Before(i, files, library) ==
    [Cur EXCEPT !.mediaFiles = files, !.media_library = library]
Again(i, files, library) ==
    downloadMedia(Before(i, files, library), fetched[i].url, fetched[i].target[1],
                  fetched[i].target[2], fetched[i].target[3], fetched[i].overwrite,
                  fetched[i].dl)
SameAs(i, r) ==
    /\ FilesAfter(i) = r.S.mediaFiles
    /\ LibraryAfter(i) = r.S.media_library
    /\ fetched[i].threw = r.threw

Registered(i) == fetched[i].url \in DOMAIN fetched[i].library
RegisteredCopyExists(i) ==
    /\ Registered(i)
    /\ fetched[i].library[fetched[i].url] \in DOMAIN fetched[i].files
    /\ fetched[i].library[fetched[i].url] # fetched[i].target

C24_IdempotentSkip ==
    \A i \in DOMAIN fetched :
        (~fetched[i].overwrite /\ fetched[i].target \in DOMAIN fetched[i].files) =>
            IF ~fetched[i].files[fetched[i].target].empty
            THEN /\ fetched[i].log = <<"skip">>
                 /\ FilesAfter(i) = fetched[i].files
                 /\ LibraryAfter(i) = fetched[i].library
                 /\ ~fetched[i].threw
            ELSE /\ Did(i, "lookup")
                 /\ Did(i, "link") \/ Did(i, "download")
                 /\ SameAs(i, Again(i, Drop(fetched[i].files, {fetched[i].target}),
                                    fetched[i].library))
\* a download that arrived is repeated and skipped
C24_Witness ==
    /\ Len(fetched) = 2
    /\ fetched[1].target = fetched[2].target
    /\ Did(1, "download") /\ fetched[1].dl = "ok"
    /\ ~fetched[2].overwrite
    /\ fetched[2].log = <<"skip">>

CoverDownload(t, oc) ==
    downloadMedia(Cur, <<oc.title, "covers">>, batches[t.batch].system, "covers",
                  oc.title, batches[t.batch].syncOps.overwrite = TRUE, oc.dl["covers"])
\* task t, answered with oc, requests the cover from the network and fails
CoverFails(t, oc) ==
    /\ t \in inflight
    /\ t.pc = "scrape"
    /\ oc.kind = "hit"
    /\ batches[t.batch].syncOps.syncImages
    /\ "covers" \in oc.urls
    /\ oc.dl["covers"] \in {"httpfail", "writefail"}
    /\ CoverDownload(t, oc).log[Len(CoverDownload(t, oc).log)] = "download"
    /\ TaskScrapeDone(t, oc)

\* C25: when the download of the cover fails, no file is left at the target,
\* media_library is not written, the task goes on to write its row, and the
\* row's image_path does not name the target
C25_FailedDownloadLeavesPathUnset ==
    [][\A t \in inflight, oc \in ReconOutcomes :
         CoverFails(t, oc) =>
            LET target == <<batches[t.batch].system, "covers", oc.title>> IN
            /\ target \notin DOMAIN mediaFiles'
            /\ <<oc.title, "covers">> \notin DOMAIN media_library' \ DOMAIN media_library
            /\ \E u \in inflight' :
                    /\ u.batch = t.batch /\ u.filename = t.filename /\ u.pc = "insert"
                    /\ u.row.image_path # target]_vars

(***************************************************************************)
(* The options and the downloads of a single-item refresh.                  *)
(***************************************************************************)
\* refresh r gets a game from the lookup and makes its downloads
RefreshDownloads(r, oc) ==
    /\ r \in DOMAIN refreshes
    /\ refreshes[r].pc = "scrape"
    /\ oc.kind = "hit"
    /\ RefreshScrapeDone(r, oc)
\* what that step's call of downloadMedia for category c did, <<>> if none
DownloadLog(r, oc, c) ==
    LET res == processNewGameScraped(Cur, refreshes[r].system, refreshes[r].syncOps,
                                     refreshes[r].row, oc)
    IN  IF \E k \in DOMAIN res.log : res.log[k].type = c
        THEN res.log[CHOOSE k \in DOMAIN res.log : res.log[k].type = c].did
        ELSE <<>>
RequestedOf(r, oc) ==
    {c \in Cats : refreshes[r].syncOps[CatOption(c)] /\ c \in oc.urls}
ForcedOptions ==
    \A r \in DOMAIN refreshes' :
        ~refreshes'[r].syncOps.incremental /\ refreshes'[r].syncOps.overwrite

SweptFilesLeft(system) ==
    {p \in DOMAIN mediaFiles' : p[1] = system /\ p[2] \in SweptFolders}
ReferencedAfter(p) ==
    \E k \in DOMAIN games' : k[1] = p[1] /\ \E c \in Cats : games'[k][Column(c)] = p
\* the step in which cleanOrphanedMedia(system) of batch b returns
SweepReturns(b) ==
    /\ SweepStep(b)
    /\ batches[b].cleanArg # Null

SweepBegins(b) ==
    /\ b \in DOMAIN batches'
    /\ batches'[b].sweeps > (IF b \in DOMAIN batches THEN batches[b].sweeps ELSE 0)
BatchEnds(b) ==
    /\ b \in DOMAIN batches'
    /\ batches'[b].pc = "done"
    /\ b \in DOMAIN batches => batches[b].pc # "done"
Readable(b) == batches'[b].system \in DOMAIN disk

\* C29: the sweep of a batch is called once, when the last task has been
\* counted (or the work list is empty), for the partition of the batch and
\* while the batch holds the slot; the batch ends when that sweep returns, the
\* slot still held and no later batch begun
C29_SweepOnceBeforeRelease ==
    [][\A b \in 1..MaxBatches :
         /\ SweepBegins(b) =>
                /\ batches'[b].sweeps = 1
                /\ batches'[b].pc = "cleaning"
                /\ batches'[b].completedCount = batches'[b].total
                /\ batches'[b].cleanArg = batches'[b].system
                /\ runningSystem' = batches'[b].system
         /\ (BatchEnds(b) /\ Readable(b)) =>
                /\ b \in DOMAIN batches
                /\ batches[b].pc = "cleaning"
                /\ batches[b].sweeps = 1
                /\ runningSystem = batches[b].system
                /\ Len(batches) = b]_vars

(***************************************************************************)
(* app.js: GET /api/play-merged/:id/:filename.  An archive is the function  *)
(* from its entry names to their data; the data tell the archive they come  *)
(* from.                                                                    *)
(***************************************************************************)
ARCADE_CORES == {"fbneo", "fbalpha2012", "mame2003", "mame2003_plus", "mame2010",
                 "mame2015", "mame", "finalburn_neo"}
EntryNames == {"A", "B", "C"}
\* a file that fs.existsSync finds and AdmZip reads, one that is not there, and
\* one that AdmZip cannot read
Zip(names, data) == [state |-> "ok", entries |-> [n \in names |-> data]]
NoFile == [state |-> "missing", entries |-> EmptyFcn]
BadZip == [state |-> "corrupt", entries |-> EmptyFcn]
ChildFiles == {Zip(N, "child") : N \in SUBSET {"A", "B"}} \cup {NoFile, BadZip}
ParentFiles == {Zip(N, "parent") : N \in (SUBSET {"B", "C"}) \ {{}}} \cup {NoFile, BadZip}
BiosFiles == {Zip(N, "bios") : N \in {{"A", "C"}, {"B"}, {"D"}}} \cup {NoFile, BadZip}
\* sysConf.ejs_core of the game's partition; "" when systems.json has no entry
PlayCores == {"mame2003", "nestopia", ""}

\* the row the request names, and the other rows the games table can hold
\* next to it: same system and name with a shorter, an equally long and a
\* longer filename, the same name in another system, another name
PlayGame == [id |-> 1, system |-> "mame", name |-> "kof98", filename |-> "kof98.zip"]
OtherRows ==
    {[id |-> 2, system |-> "mame", name |-> "kof98", filename |-> "kof.zip"],
     [id |-> 3, system |-> "mame", name |-> "kof98", filename |-> "kof99.zip"],
     [id |-> 4, system |-> "mame", name |-> "kof98", filename |-> "kof98h.zip"],
     [id |-> 5, system |-> "fbneo", name |-> "kof98", filename |-> "k.zip"],
     [id |-> 6, system |-> "mame", name |-> "sf2", filename |-> "sf.zip"]}
NoRow == [id |-> 0, system |-> "", name |-> "", filename |-> ""]
\* SQL length(filename) for the file names of the model
length(filename) ==
    CASE filename = "k.zip" -> 5
      [] filename = "sf.zip" -> 6
      [] filename = "kof.zip" -> 7
      [] filename = "kof98.zip" -> 9
      [] filename = "kof99.zip" -> 9
      [] filename = "kof98h.zip" -> 10
      [] OTHER -> 0

\* a variant of parentQuery without the ORDER BY
parentQuery_Unordered(rows, game) ==
    LET same == {r \in rows : r.system = game.system /\ r.name = game.name} IN
    IF same = {} THEN {NoRow} ELSE same
\* SELECT * FROM games WHERE system = ? AND name = ? ORDER BY length(filename)
\* ASC LIMIT 1: the rows the statement can return (one of the shortest), or
\* no row
parentQuery(rows, game) ==
    LET same == {r \in rows : r.system = game.system /\ r.name = game.name}
        shortest == {r \in same : \A q \in same : length(r.filename) <= length(q.filename)}
    IN  IF same = {} THEN {NoRow} ELSE shortest

\* finalZip after zip.getEntries().forEach(entry => { if (!finalZip.getEntry(
\* entry.entryName)) finalZip.addFile(entry.entryName, entry.getData()) })
mergeInto_Overwriting(finalZip, zip) ==
    [n \in (DOMAIN finalZip) \cup (DOMAIN zip) |->
        IF n \in DOMAIN zip THEN zip[n] ELSE finalZip[n]]
mergeInto(finalZip, zip) ==
    [n \in (DOMAIN finalZip) \cup (DOMAIN zip) |->
        IF n \in DOMAIN finalZip THEN finalZip[n] ELSE zip[n]]

\* a variant of playMergedGame that merges for every core
playMergedGame_AnyCore(P) ==
    IF ~P.found THEN [P EXCEPT !.pc = "done", !.status = 404]
    ELSE [P EXCEPT !.pc = "parent"]
\* the handler from the answer of the first query to its next await or return;
\* a response whose body is the file itself has kind "stream"
playMergedGame(P) ==
    IF ~P.found THEN [P EXCEPT !.pc = "done", !.status = 404]
    ELSE IF P.core \notin ARCADE_CORES
    THEN IF P.child.state # "missing"
         THEN [P EXCEPT !.pc = "done", !.status = 200, !.kind = "stream",
                        !.body = P.child.entries]
         ELSE [P EXCEPT !.pc = "done", !.status = 404]
    ELSE [P EXCEPT !.pc = "parent"]

\* the handler from the answer of the parent query (row, NoRow when the
\* statement returned nothing) to its return; P.parent is the file
\* at the path of a row other than the game's
playMergedParent(P, row) ==
    LET Q == [P EXCEPT !.parentRow = row,
                       !.parentGame = IF row = NoRow THEN "none"
                                      ELSE IF row.id = PlayGame.id THEN "self" ELSE "other"]
    IN  IF P.child.state = "missing" THEN [Q EXCEPT !.pc = "done", !.status = 404]
        ELSE IF P.child.state = "corrupt" THEN [Q EXCEPT !.pc = "done", !.status = 500]
        ELSE LET zip0 == P.child.entries
                 zip1 == IF row # NoRow /\ row.id # PlayGame.id /\ P.parent.state = "ok"
                         THEN mergeInto(zip0, P.parent.entries) ELSE zip0
                 zip2 == IF P.biosDir /\ P.biosName /\ P.bios.state = "ok"
                         THEN mergeInto(zip1, P.bios.entries) ELSE zip1
             IN  [Q EXCEPT !.pc = "done", !.status = 200, !.kind = "zip", !.body = zip2]

\* what the callback of the parent query does with an error
OnQueryError == {"reject", "resolve"}
playMergedParentFailed(P, onError) ==
    IF onError = "reject"
    THEN [P EXCEPT !.pc = "done", !.status = 500, !.queryErr = TRUE]
    ELSE playMergedParent([P EXCEPT !.queryErr = TRUE], NoRow)

InitMerge ==
    /\ InitQuiet
    /\ resolve = NoCall
    /\ media_library = EmptyFcn
    /\ games = EmptyFcn
    /\ mediaFiles = EmptyFcn
    /\ disk = SchedDisk
    /\ \E found \in BOOLEAN, core \in PlayCores, child \in ChildFiles,
          others \in SUBSET OtherRows, parent \in ParentFiles,
          biosDir \in BOOLEAN, biosName \in BOOLEAN, bios \in BiosFiles :
            /\ ~found => (core = "" /\ child = NoFile /\ others = {})
            /\ others = {} => parent = NoFile
            /\ ~(biosDir /\ biosName) => (bios = NoFile /\ biosDir /\ ~biosName)
            /\ play = [pc |-> "game", found |-> found, core |-> core, child |-> child,
                       rows |-> IF found THEN others \cup {PlayGame} ELSE others,
                       parentRow |-> NoRow, parentGame |-> "none", queryErr |-> FALSE,
                       parent |-> parent, biosDir |-> biosDir, biosName |-> biosName, bios |-> bios,
                       status |-> 0, kind |-> "none", body |-> EmptyFcn]

PlayGameAnswered ==
    /\ play.pc = "game"
    /\ play' = playMergedGame(play)
    /\ UNCHANGED scannerVarsButPlay

\* the parent query answers, with a row or none (the game's row deleted since
\* the first query)
PlayParentAnswered(row) ==
    /\ play.pc = "parent"
    /\ row \in parentQuery(play.rows, PlayGame) \cup {NoRow}
    /\ play' = playMergedParent(play, row)
    /\ UNCHANGED scannerVarsButPlay

\* the parent query fails: one copy of the handler rejects (the request ends
\* with Koa's 500), the other logs the error and goes on without a parent
PlayParentFailed(onError) ==
    /\ play.pc = "parent"
    /\ play' = playMergedParentFailed(play, onError)
    /\ UNCHANGED scannerVarsButPlay

NextMerge ==
    \/ PlayGameAnswered
    \/ \E row \in OtherRows \cup {PlayGame, NoRow} : PlayParentAnswered(row)
    \/ \E onError \in OnQueryError : PlayParentFailed(onError)

SpecMerge == InitMerge /\ [][NextMerge]_vars

\* the archives the handler could read and was to merge
Composed == play.pc = "done" /\ play.status = 200 /\ play.core \in ARCADE_CORES
BaseEntries == play.child.entries
ParentEntries ==
    IF play.parentGame = "other" THEN play.parent.entries
    ELSE IF play.parentGame = "self" THEN play.child.entries
    ELSE EmptyFcn
FirmwareEntries == IF play.biosDir /\ play.biosName THEN play.bios.entries ELSE EmptyFcn

\* C30: the composed archive of an arcade entry has exactly the entry names of
\* base, parent and firmware together, each with the data of the first of
\* base, parent, firmware that has the name; a child {A, B} with parent {B, C}
\* gives {A, B, C} with B from the child
C30_MergeAdditive ==
    Composed =>
        /\ DOMAIN play.body =
                (DOMAIN BaseEntries) \cup (DOMAIN ParentEntries) \cup (DOMAIN FirmwareEntries)
        /\ \A n \in DOMAIN play.body :
                play.body[n] = IF n \in DOMAIN BaseEntries THEN BaseEntries[n]
                               ELSE IF n \in DOMAIN ParentEntries THEN ParentEntries[n]
                               ELSE FirmwareEntries[n]
        /\ (/\ play.child = Zip({"A", "B"}, "child")
            /\ play.parentGame = "other"
            /\ play.parent = Zip({"B", "C"}, "parent")
            /\ ~play.biosName) =>
                play.body = [n \in {"A", "B", "C"} |-> IF n = "C" THEN "parent" ELSE "child"]
\* child {A, B}, parent {B, C} and a firmware archive {A, C} have been composed
C30_Witness ==
    /\ Composed
    /\ play.child = Zip({"A", "B"}, "child")
    /\ play.parentGame = "other"
    /\ play.parent = Zip({"B", "C"}, "parent")
    /\ play.biosName
    /\ play.bios = Zip({"A", "C"}, "bios")
    /\ play.body = [n \in {"A", "B", "C"} |-> IF n = "C" THEN "parent" ELSE "child"]

\* the rows of the catalog with the system and the name of the requested game
SameTitle == {r \in play.rows : r.system = PlayGame.system /\ r.name = PlayGame.name}
HasData(data) == \E n \in DOMAIN play.body : play.body[n] = data

\* C31: the row whose archive is merged as the parent has the system and the
\* name of the requested game and no row with that system and name has a
\* shorter filename; when it is the requested row itself nothing of a parent
\* is merged: the response is the base with the firmware
C31_ShortestNamesakeIsParent ==
    Composed =>
        /\ play.parentRow # NoRow =>
                /\ play.parentRow \in SameTitle
                /\ \A q \in SameTitle :
                        length(play.parentRow.filename) <= length(q.filename)
        /\ HasData("parent") =>
                /\ play.parentRow # NoRow
                /\ play.parentRow.id # PlayGame.id
        /\ (play.parentRow # NoRow /\ play.parentRow.id # PlayGame.id
                /\ play.parent.state = "ok") =>
                DOMAIN play.parent.entries \subseteq DOMAIN play.body
        /\ play.parentRow.id = PlayGame.id =>
                play.body = mergeInto(BaseEntries, FirmwareEntries)
\* of three rows of the same title the one with the shortest filename was
\* merged into the longest-but-one
C31_Witness ==
    /\ Composed
    /\ Cardinality(SameTitle) = 3
    /\ play.parentRow.filename = "kof.zip"
    /\ play.parent = Zip({"B", "C"}, "parent")
    /\ HasData("parent")

\* C32: an archive is composed only when the core of the game's partition is
\* an arcade core; for any other core, or none, the response is the file as
\* it is, or 404 when there is no file
C32_MergeOnlyForArcadeCores ==
    (play.pc = "done" /\ play.found) =>
        /\ play.kind = "zip" => play.core \in ARCADE_CORES
        /\ play.core \notin ARCADE_CORES =>
                IF play.child.state = "missing"
                THEN play.status = 404 /\ play.kind = "none" /\ play.body = EmptyFcn
                ELSE /\ play.status = 200
                     /\ play.kind = "stream"
                     /\ play.body = play.child.entries
                     /\ play.parentRow = NoRow
\* a partition without configuration: the file is sent as it is although a
\* namesake with a shorter filename and a firmware archive exist
C32_Witness ==
    /\ play.pc = "done"
    /\ play.core = ""
    /\ play.kind = "stream"
    /\ play.child = Zip({"A", "B"}, "child")
    /\ \E r \in play.rows : r.filename = "kof.zip"
    /\ play.parent.state = "ok"
    /\ play.biosName /\ play.bios.state = "ok"

TaskKey(t) == <<batches[t.batch].system, t.filename>>
\* the ROM files of the partitions' directories
OnDisk(key) == key[1] \in DOMAIN disk /\ key[2] \in disk[key[1]]

\* C34: a stop request leaves the tasks in flight and the rows as they are; a
\* task leaves flight only for its next step, or when its INSERT has written
\* its row, or when processNewGame throws; and the row of a file on disk is
\* removed only by a step that leaves a task for that file in flight. So a
\* task executing at a stop reinserts the row it deleted.
C34_StopLetsTasksFinish ==
    [][/\ CallStopSync => (inflight' = inflight /\ games' = games)
       /\ \A t \in inflight \ inflight' :
            \/ \E u \in inflight' \ inflight :
                    /\ u.batch = t.batch /\ u.filename = t.filename
                    /\ <<t.pc, u.pc>> \in {<<"delete", "scrape">>, <<"delete", "insert">>,
                                           <<"scrape", "insert">>}
            \/ /\ t.pc = "insert"
               /\ TaskKey(t) \in DOMAIN games'
               /\ games'[TaskKey(t)] = t.row
            \/ t.pc = "scrape" /\ TaskThrows(t)
       /\ \A key \in DOMAIN games \ DOMAIN games' :
            OnDisk(key) => \E u \in inflight' : TaskKey(u) = key]_vars
\* a stop has been requested while a task had deleted the row of its file and
\* not yet written the new one
C34_Witness ==
    /\ stopCalled
    /\ isStopping
    /\ \E t \in inflight :
            /\ t.pc = "insert"
            /\ HasOld(Cur, t.batch, t.filename)
            /\ TaskKey(t) \notin DOMAIN games
            /\ OnDisk(TaskKey(t))

\* the tasks that enter flight in a step
Started == {u \in inflight' : ~\E t \in inflight : t.batch = u.batch /\ t.filename = u.filename}
\* the delay set at the completion of the last task has not elapsed
GapRunning == \E i \in DOMAIN timers : timers[i].kind = "gap" /\ timers[i].left > 0

\* C35: a task starts only when the task before it has completed and the
\* delay set at that completion has elapsed: no task is in flight and no timer
\* of the runner is still running when a task enters flight
C35_DelayBetweenTasks ==
    [][Started # {} => (inflight = {} /\ ~GapRunning)]_vars

\* the batch begun last holds the slot and has not been stopped
HoldsSlot(b) ==
    /\ b = Len(batches)
    /\ Active(b)
    /\ runningSystem = batches[b].system

\* C36: while a batch that has not been stopped holds the slot, the only step
\* that changes runningSystem is the end of that batch's own sweep
C36_SlotReleasedByOwner ==
    [][\A b \in DOMAIN batches :
        (HoldsSlot(b) /\ runningSystem' # runningSystem) => CleanDone(b)]_vars

\* a refresh has begun and not yet returned
RefreshRunning == \E r \in DOMAIN refreshes : refreshes[r].pc # "done"

\* C37: a refresh requested while a partition is running is refused and
\* changes no row, no file and begins nothing; and while a refresh is between
\* its start and its return no task of a batch is in flight
C37_RefreshExcludesBatchWork ==
    [][/\ (runningSystem # Null /\ reply'.op = "syncSingleGame") =>
            /\ ~reply'.success
            /\ UNCHANGED <<games, mediaFiles, media_library, refreshes, inflight>>
       /\ RefreshRunning' => inflight' = {}]_vars

\* the files named by the asset columns of a row
AssetPaths(row) ==
    {row.image_path, row.video_path, row.marquee_path, row.box_texture_path,
     row.screenshot_path} \ {NullPath}
\* the steps in which cleanOrphanedMedia(system) reads the rows and unlinks
SweepOf(system) ==
    \/ \E r \in DOMAIN refreshes : refreshes[r].system = system /\ RefreshCleanDone(r)
    \/ \E b \in DOMAIN batches : batches[b].cleanArg = system /\ CleanDone(b)
\* the rows deleted by work in flight and not yet written again
RowsInFlight(system) ==
    {refreshes[r].row : r \in {q \in DOMAIN refreshes :
            /\ refreshes[q].system = system
            /\ refreshes[q].hasOld
            /\ refreshes[q].pc \in {"scrape", "insert"}}}
    \cup {t.row : t \in {u \in inflight :
            /\ batches[u.batch].system = system
            /\ HasOld(Cur, u.batch, u.filename)
            /\ u.pc \in {"scrape", "insert"}}}
\* the rows about to be written by work in flight
RowsToInsert(system) ==
    {refreshes[r].row : r \in {q \in DOMAIN refreshes :
            refreshes[q].system = system /\ refreshes[q].pc = "insert"}}
    \cup {t.row : t \in {u \in inflight :
            batches[u.batch].system = system /\ u.pc = "insert"}}

\* C38: a sweep of a partition reads the rows only when no task and no
\* refresh of that partition has deleted its row and not yet written it again,
\* and it removes no file that a row about to be written names
C38_SweepSparesLiveAssets ==
    [][\A system \in Systems : SweepOf(system) =>
            /\ RowsInFlight(system) = {}
            /\ \A row \in RowsToInsert(system) :
                    AssetPaths(row) \cap (DOMAIN mediaFiles \ DOMAIN mediaFiles') = {}]_vars

\* scan requests alone, for partitions whose directories hold no ROM
PendingDisk == [s \in {"nes", "snes"} |-> {}]
InitPending ==
    /\ InitProgram
    /\ games = EmptyFcn
    /\ mediaFiles = EmptyFcn
    /\ disk = PendingDisk

NextPending ==
    \/ \E s \in Systems : AcceptAddToSyncQueue(MaxAdds, s, {})
    \/ \E b \in 1..MaxAdds : DbAllDone(b)
    \/ \E b \in 1..MaxAdds : CleanDone(b)
    \/ Tick
    \/ \E i \in DOMAIN timers : TimerDebounce(i)

SpecPending == InitPending /\ [][NextPending]_vars

\* C39: the entries of the pending queue are for different partitions, and
\* none of them is for the running partition
C39_PendingDistinctFromRunning ==
    /\ \A i, j \in DOMAIN pendingQueue :
            pendingQueue[i].system = pendingQueue[j].system => i = j
    /\ runningSystem # Null => ~InQueue(runningSystem)

\* the last task of batch b is counted in this step
LastCounted(b) ==
    /\ b \in DOMAIN batches
    /\ batches[b].pc = "tasks"
    /\ batches[b].completedCount < batches[b].total
    /\ batches'[b].completedCount = batches[b].total

\* C40: progress.current is at least 0 and at most progress.total; a batch
\* begins with progress {0, 0}; and when the last task of a batch that was not
\* stopped is counted, progress.current equals progress.total
C40_ProgressWithinTotal ==
    [][/\ 0 <= progress'.current
       /\ progress'.current <= progress'.total
       /\ BatchBegins => progress' = [current |-> 0, total |-> 0]
       /\ \A b \in DOMAIN batches :
            (LastCounted(b) /\ ~batches[b].stopped) =>
                progress'.current = progress'.total]_vars

=============================================================================
